---- MODULE Spec2Model ----
(***************************************************************************)
(* Model of the conversation / tool-orchestration core of claude-engineer: *)
(*   - the alternation repair (ChatManager / ClaudeClient                  *)
(*     ensure_alternating_roles),                                          *)
(*   - the retry decision (ChatManager.decide_retry) and the multi-file    *)
(*     edit tool that feeds it,                                            *)
(*   - one turn (ChatManager.chat_with_claude),                            *)
(*   - the autonomous-mode controller (ChatManager.handle_automode),       *)
(*   - the command loop (ChatManager.run).                                 *)
(***************************************************************************)
EXTENDS Integers, Sequences, FiniteSets, TLC

VARIABLES
    \* ---- ChatManager.run / handle_automode ----
    pc,              \* where the single thread of control is
    history,         \* Conversation.history
    automode,        \* ChatManager.automode
    max_iterations,  \* handle_automode locals
    iteration_count,
    error_count,
    auto_user_input, \* handle_automode's user_input (the pending prompt)
    auto_reported,   \* terminal reasons displayed by the current run, in order
    auto_calls,      \* chat_with_claude calls made by the current run
    auto_done_at,    \* the call after which the run saw a completion signal
    auto_ok,         \* calls of the current run that returned
    auto_streak,     \* calls of the current run that raised since the last one that returned
    auto_earlier,    \* how earlier runs of the session ended before their iterations were used up
    \* ---- ChatManager.chat_with_claude ----
    caller,          \* "none" | "regular" | "image" | "automode"
    current_conversation,
    filtered_conversation_history,
    messages,
    assistant_response,
    exit_continuation,
    tool_uses,       \* the tool_use blocks of the response, by position
    tool_index,      \* position of `for tool_use in tool_uses`
    tool_name,
    tool_input,
    tool_result,
    tool_checker_response,
    retry_decision,  \* what decide_retry gave for the current tool call
    edit_calls,      \* edit_and_apply_multiple invocations of the current tool call
    ret,             \* what chat_with_claude returned or raised
    sent,            \* the message lists handed to the model API by the last step
    \* ---- pure-function harness: alternation repair ----
    rep_pc,          \* "idle" | "input" | "once" | "twice"
    rep_input,       \* the message list handed to the routine
    rep_cm,          \* ChatManager.ensure_alternating_roles(rep_input)
    rep_cc,          \* ClaudeClient.ensure_alternating_roles(rep_input)
    rep_twice,       \* ClaudeClient repair applied to rep_cm (main dispatch)
    \* ---- pure-function harness: decide_retry ----
    rt_pc,           \* "idle" | "input" | "decided"
    rt_response,     \* tool_checker_response
    rt_results,      \* edit_results
    rt_decision,     \* the decision returned, or the exception raised
    \* ---- pure-function harness: tool dispatch ----
    td_pc,           \* "idle" | "input" | "done"
    td_run,          \* tool name, input, path argument and environment
    td_outcome,      \* what the dispatch at lines 226-231 gave
    td_touched,      \* the paths the tool handed to makedirs / open / walk
    \* ---- harness: the stores of a session and reset_conversation ----
    ss_pc,           \* "idle" | "run" | "tools" | "exited"
    ss_history,      \* Conversation.history
    ss_conv_files,   \* Conversation.file_contents
    ss_token_usage,  \* TokenTracker.token_usage
    ss_file_contents,\* FileOperations.file_contents
    ss_code_editor,  \* ClaudeClient.code_editor_memory and code_editor_files
    ss_reset,        \* a confirmed reset has been carried out (or has failed)
    \* ---- harness: CodeExecutor ----
    ex_pc,           \* "idle" | "ready"
    running_processes, \* CodeExecutor.running_processes, the pids it holds
    ex_alive,        \* the spawned processes that are still running
    ex_spawned,      \* every pid spawned so far
    ex_completed,    \* the pids whose run completed within the wait
    ex_timed_out,    \* the pids whose run exceeded the wait
    ex_terminated,   \* the pids that ended after a signal of stop_process
    ex_last,         \* the last call, or process exit, and its argument
    ex_result,       \* what the last call returned
    \* ---- pure-function harness: filter_history ----
    fh_pc,           \* "idle" | "input" | "filtered"
    fh_history,      \* Conversation.history handed to filter_history
    fh_filtered,     \* what filter_history returned
    \* ---- pure-function harness: save_to_file ----
    sv_pc,           \* "idle" | "input" | "saved"
    sv_history,      \* Conversation.history at the save
    sv_file_contents,\* Conversation.file_contents at the save
    sv_artifact,     \* the lines written to the file
    sv_reread        \* what re-reading the artifact gives

autoVars == <<automode, max_iterations, iteration_count, error_count,
              auto_user_input, auto_reported, auto_calls, auto_done_at,
              auto_ok, auto_streak, auto_earlier>>

turnVars == <<current_conversation, filtered_conversation_history, messages,
              assistant_response, exit_continuation, tool_uses, tool_index>>

toolVars == <<tool_name, tool_input, tool_result, tool_checker_response,
              retry_decision, edit_calls>>

progVars == <<pc, history, caller, ret, sent, autoVars, turnVars, toolVars>>

repVars == <<rep_pc, rep_input, rep_cm, rep_cc, rep_twice>>

rtVars == <<rt_pc, rt_response, rt_results, rt_decision>>

tdVars == <<td_pc, td_run, td_outcome, td_touched>>

sessVars == <<ss_pc, ss_history, ss_conv_files, ss_token_usage, ss_file_contents,
              ss_code_editor, ss_reset>>

execVars == <<ex_pc, running_processes, ex_alive, ex_spawned, ex_completed,
              ex_timed_out, ex_terminated, ex_last, ex_result>>

filterVars == <<fh_pc, fh_history, fh_filtered>>

exportVars == <<sv_pc, sv_history, sv_file_contents, sv_artifact, sv_reread>>

unitVars == <<sessVars, execVars, filterVars, exportVars>>

vars == <<progVars, repVars, rtVars, tdVars, unitVars>>

----------------------------------------------------------------------------
(* Bounds *)

MaxLen == 4              \* longest message list fed to the repair harness

MaxCommentaryLen == 1    \* longest commentary (in tokens) fed to decide_retry

MaxEntries == 2          \* longest edit-result list fed to decide_retry

MaxHistory == 1          \* commands that add to the history are taken below this length

MaxToolUses == 1         \* most tool_use blocks in one model response

MaxEditFiles == 1        \* most files in one edit_and_apply_multiple input

MaxIterations == 3       \* largest automode argument, controller with a stubbed turn

MaxHarnessFiles == 2         \* most files in one edit input of the dispatch harness

MaxTurnToolUses == 2        \* most tool_use blocks in one response, regular turns alone

MaxProgramIterations == 1 \* largest automode argument, whole program

MaxRunHistory == 5       \* later automode commands are taken below this history length
MaxRunIterations == 1    \* largest argument of a later automode command

MaxSessionMessages == 2  \* turns are started below this history length, session harness

MaxSessionTokens == 2    \* most input or output tokens of one response, session harness

MaxProcesses == 2        \* most processes spawned, executor harness

MaxFilterMessages == 2   \* longest history fed to filter_history

MaxFilterBlocks == 2     \* most blocks in one message fed to filter_history

MaxExportLines == 2      \* most lines in a message body or a tracked file fed to save_to_file

----------------------------------------------------------------------------
(* Messages *)

Roles == {"user", "assistant"}

PLACEHOLDER == "Continuing the conversation..."

\* Message content is either a plain string or a list of typed blocks.
StrContent(text) == [kind |-> "str", text |-> text, blocks |-> <<>>]

ListContent(blocks) == [kind |-> "list", text |-> "", blocks |-> blocks]

\* A content block of a list content.  output is block.get('output', '').
Block(type, id) == [type |-> type, id |-> id, output |-> ""]

\* A message {"role": ..., "content": ...}.
Message(role, content) == [role |-> role, content |-> content]

PlaceholderMessage == Message("assistant", StrContent(PLACEHOLDER))

\* All lists over S of length at most n.
RECURSIVE SeqsUpTo(_, _)
SeqsUpTo(S, n) ==
    IF n = 0 THEN {<<>>}
    ELSE LET shorter == SeqsUpTo(S, n - 1)
         IN  shorter \cup {Append(s, x) : s \in {t \in shorter : Len(t) = n - 1}, x \in S}

----------------------------------------------------------------------------
(* Alternation repair: the loop body is one iteration of                   *)
(* `for message in messages`, the state is (alternating_messages,          *)
(* last_role); last_role = None is "none".                                 *)

RepairStart == [alternating_messages |-> <<>>, last_role |-> "none"]

\* bug variant: the repeated user message is appended without a placeholder
ClaudeClient_repair_body_noplaceholder(st, message) ==
    IF message.role # st.last_role
    THEN [alternating_messages |-> Append(st.alternating_messages, message),
          last_role |-> message.role]
    ELSE IF message.role = "user"
    THEN [alternating_messages |-> Append(st.alternating_messages, message),
          last_role |-> "user"]
    ELSE st

\* bug variant: the placeholder is appended after the repeated user message
ClaudeClient_repair_body_swapped(st, message) ==
    IF message.role # st.last_role
    THEN [alternating_messages |-> Append(st.alternating_messages, message),
          last_role |-> message.role]
    ELSE IF message.role = "user"
    THEN [alternating_messages |->
              st.alternating_messages \o <<message, PlaceholderMessage>>,
          last_role |-> "user"]
    ELSE st

\* bug variant: a repeated user message is dropped like a repeated assistant one
ClaudeClient_repair_body_dropuser(st, message) ==
    IF message.role # st.last_role
    THEN [alternating_messages |-> Append(st.alternating_messages, message),
          last_role |-> message.role]
    ELSE st

ClaudeClient_repair_body(st, message) ==
    IF message.role # st.last_role
    THEN [alternating_messages |-> Append(st.alternating_messages, message),
          last_role |-> message.role]
    ELSE IF message.role = "user"
    THEN [alternating_messages |->
              st.alternating_messages \o <<PlaceholderMessage, message>>,
          last_role |-> "user"]
    ELSE st

\* for message in messages
RECURSIVE ClaudeClient_repair_loop(_, _, _)
ClaudeClient_repair_loop(st, msgs, i) ==
    IF i > Len(msgs) THEN st
    ELSE ClaudeClient_repair_loop(ClaudeClient_repair_body(st, msgs[i]), msgs, i + 1)

ClaudeClient_ensure_alternating_roles(msgs) ==
    ClaudeClient_repair_loop(RepairStart, msgs, 1).alternating_messages

ChatManager_repair_body(st, message) ==
    IF message.role # st.last_role
    THEN [alternating_messages |-> Append(st.alternating_messages, message),
          last_role |-> message.role]
    ELSE IF message.role = "user"
    THEN [alternating_messages |->
              st.alternating_messages \o <<PlaceholderMessage, message>>,
          last_role |-> "user"]
    ELSE st

\* for message in messages
RECURSIVE ChatManager_repair_loop(_, _, _)
ChatManager_repair_loop(st, msgs, i) ==
    IF i > Len(msgs) THEN st
    ELSE ChatManager_repair_loop(ChatManager_repair_body(st, msgs[i]), msgs, i + 1)

ChatManager_ensure_alternating_roles(msgs) ==
    ChatManager_repair_loop(RepairStart, msgs, 1).alternating_messages

----------------------------------------------------------------------------
(* Texts.  A text (model reply, commentary) is a list of tokens, the string *)
(* being the tokens joined by blanks.  The tokens are the substrings the   *)
(* program looks for, with a mixed-case variant, and filler.  No token is  *)
(* split across two tokens of the alphabet, so `x in text` is decided per  *)
(* token.                                                                  *)

RetryPhrases ==
    {"need to retry", "should try again", "another attempt is necessary",
     "errors that need addressing", "requires further editing"}

CONTINUATION_EXIT_PHRASE == "AUTOMODE_COMPLETE"

NEWLINE == "<LF>"

QuotedTokens == {"'a.py'", "\"b.py\""}

CommentaryTokens ==
    RetryPhrases \cup QuotedTokens \cup
        {"Need To Retry", "Done.", "fix", "Edit Again", NEWLINE}

\* str.lower() on one token
LowerToken(tok) ==
    CASE tok = "Need To Retry" -> "need to retry"
      [] tok = "Done." -> "done."
      [] tok = "Edit Again" -> "edit again"
      [] tok = CONTINUATION_EXIT_PHRASE -> "automode_complete"
      [] OTHER -> tok

\* str.lower()
Lower(text) == [i \in 1 .. Len(text) |-> LowerToken(text[i])]

\* bug variant of Lower: the text is searched as written
LowerSkipped(text) == text

\* `needle in text`
In(needle, text) == \E i \in 1 .. Len(text) : text[i] = needle

\* the tokens that contain retry, edit again or fix, ignoring case
HasVerb(tok) == LowerToken(tok) \in {"need to retry", "edit again", "fix"}

\* the text between the quotes of a quoted token
Unquote(tok) == IF tok = "'a.py'" THEN "a.py" ELSE "b.py"

\* index of the first quoted token after position i on the same line, else 0
RECURSIVE FirstQuoteAfter(_, _)
FirstQuoteAfter(text, i) ==
    IF i + 1 > Len(text) THEN 0
    ELSE IF text[i + 1] = NEWLINE THEN 0
    ELSE IF text[i + 1] \in QuotedTokens THEN i + 1
    ELSE FirstQuoteAfter(text, i + 1)

\* re.findall(r"(?:retry|edit again|fix).*?['\"](.*?)['\"]", text, re.IGNORECASE)
\* as a set: scan from i; a verb followed on its line by a quoted token is a
\* match that ends at the closing quote; the scan resumes after the match.
RECURSIVE re_findall(_, _)
re_findall(text, i) ==
    IF i > Len(text) THEN {}
    ELSE IF HasVerb(text[i]) /\ FirstQuoteAfter(text, i) # 0
    THEN {Unquote(text[FirstQuoteAfter(text, i)])}
            \cup re_findall(text, FirstQuoteAfter(text, i) + 1)
    ELSE re_findall(text, i + 1)

----------------------------------------------------------------------------
(* Tool results.  A tool returns a dict, a list or raises.                 *)
(*   type     "dict" | "list"                                              *)
(*   is_error tool_result.get("is_error") of a dict                        *)
(*   items    the entries of a list result                                 *)
(*   content  tool_result["content"] of an error envelope, in tokens       *)

DictResult(is_error) ==
    [type |-> "dict", is_error |-> is_error, items |-> <<>>, content |-> <<>>]

ListResult(items) ==
    [type |-> "list", is_error |-> FALSE, items |-> items, content |-> <<>>]

\* {"is_error": True, "content": content}
Envelope(content) ==
    [type |-> "dict", is_error |-> TRUE, items |-> <<>>, content |-> content]

\* execute_tool line 327
UnknownToolEnvelope(name) == Envelope(<<"Unknown tool: ", name>>)

\* execute_tool line 329
ExceptionEnvelope(name) == Envelope(<<"Error executing ", name, ": ", "<str(e)>">>)

\* the envelope returned when the edit tool raises
ErrorEnvelope == ExceptionEnvelope("edit_and_apply_multiple")

\* One per-file entry of an edit result.  is_error is "absent" when the
\* entry has no such key, else "true" / "false".
EditEntry(path, status, message, is_error) ==
    [path |-> path, status |-> status, message |-> message, is_error |-> is_error]

----------------------------------------------------------------------------
(* FileOperations.edit_and_apply_multiple *)

\* FileOperations.__init__ sets console and file_contents only: the object
\* has no claude_client attribute.
FileOperations_has_claude_client == FALSE

\* One requested file {"path": ..., "instructions": ...}; path = NoKey when
\* the dict has no "path", instructions = FALSE when it has no "instructions".
NoKey == "<no key>"

FileInput(path, instructions) == [path |-> path, instructions |-> instructions]

\* os.path.join(generations_dir, p) drops generations_dir when p is absolute
IsAbsolute(p) == p \in {"/etc/passwd"}

\* full_path.startswith(generations_dir)
StartsWithGenerations(p) == ~IsAbsolute(p)

\* The try block for one file: the message of the exception it raises, or
\* "" when it runs to the end.  on_disk: the paths open() can read.
EditTryBlock(file, on_disk) ==
    IF file.path = NoKey THEN "KeyError: 'path'"
    ELSE IF ~file.instructions THEN "KeyError: 'instructions'"
    ELSE IF ~StartsWithGenerations(file.path)
    THEN "File is not within the _generations directory"
    ELSE IF file.path \notin on_disk THEN "No such file or directory"
    ELSE IF ~FileOperations_has_claude_client
    THEN "'FileOperations' object has no attribute 'claude_client'"
    ELSE ""

\* `for file in files`: results so far, or raised = TRUE when the except
\* handler itself raises (file['path'] on a dict without "path").
RECURSIVE edit_loop(_, _, _, _)
edit_loop(files, on_disk, i, results) ==
    IF i > Len(files) THEN [raised |-> FALSE, result |-> ListResult(results)]
    ELSE LET file == files[i]
             error == EditTryBlock(file, on_disk)
         IN  IF error = ""
             THEN edit_loop(files, on_disk, i + 1,
                      Append(results, EditEntry(file.path, "success",
                                                "File edited successfully", "absent")))
             ELSE IF file.path = NoKey
             THEN [raised |-> TRUE, result |-> ListResult(results)]
             ELSE edit_loop(files, on_disk, i + 1,
                      Append(results, EditEntry(file.path, "error", error, "absent")))

edit_and_apply_multiple(files, on_disk) == edit_loop(files, on_disk, 1, <<>>)

----------------------------------------------------------------------------
(* ChatManager.decide_retry *)

\* chat_manager.py imports asyncio, os, json, traceback and no re
re_imported == FALSE

Returned(retry, files_to_retry) ==
    [raised |-> "", retry |-> retry, files_to_retry |-> files_to_retry]

Raised(exception) == [raised |-> exception, retry |-> FALSE, files_to_retry |-> {}]

NoDecision == Raised("<not called>")

\* bug variant: an entry with status "error" counts as an error
errors_present_by_status(edit_results) ==
    \E i \in 1 .. Len(edit_results.items) : edit_results.items[i].status = "error"

\* any(result.get("is_error", False) for result in edit_results), on a list
errors_present(edit_results) ==
    \E i \in 1 .. Len(edit_results.items) : edit_results.items[i].is_error = "true"

\* any(phrase in tool_checker_response.lower() for phrase in retry_phrases)
retry_phrase_present(checker_response) ==
    \E phrase \in RetryPhrases : In(phrase, Lower(checker_response))

\* [result["path"] for result in edit_results if "path" in result]
paths_of(edit_results) ==
    {edit_results.items[i].path : i \in 1 .. Len(edit_results.items)}

\* Iterating a dict yields its keys, and a str has no .get: AttributeError.
\* The retry branch calls re.findall: NameError while re is not imported.
decide_retry(checker_response, edit_results) ==
    IF edit_results.type = "dict" THEN Raised("AttributeError")
    ELSE IF errors_present(edit_results) \/ retry_phrase_present(checker_response)
    THEN IF ~re_imported THEN Raised("NameError")
         ELSE LET file_paths == re_findall(checker_response, 1)
              IN  Returned(TRUE, IF file_paths # {} THEN file_paths
                                 ELSE paths_of(edit_results))
    ELSE Returned(FALSE, {})

----------------------------------------------------------------------------
(* Conversation *)

FilterKeywords ==
    {"File contents updated in system prompt",
     "File created and added to system prompt",
     "has been read and stored in the system prompt"}

\* the condition of the list comprehension in filter_history
filter_keeps(content) ==
    content.type # "tool_result" \/ content.output \notin FilterKeywords

RECURSIVE filter_history(_, _)
filter_history(h, i) ==
    IF i > Len(h) THEN <<>>
    ELSE LET message == h[i]
             filtered_content == SelectSeq(message.content.blocks, filter_keeps)
         IN  IF message.content.kind = "list"
             THEN IF filtered_content # <<>>
                  THEN <<Message(message.role, ListContent(filtered_content))>>
                           \o filter_history(h, i + 1)
                  ELSE filter_history(h, i + 1)
             ELSE <<message>> \o filter_history(h, i + 1)

----------------------------------------------------------------------------
(* ClaudeClient.generate_response: the list placed in kwargs["messages"]   *)

\* bug variant: the list is sent as received
ClaudeClient_generate_response_unrepaired(request) == request

ClaudeClient_generate_response(request) ==
    ClaudeClient_ensure_alternating_roles(request)

----------------------------------------------------------------------------
(* Values of chat_with_claude *)

USER_TEXT == "<text typed by the user>"

CONTINUE_PROMPT == "Continue with the next step. Or STOP by saying 'AUTOMODE_COMPLETE'"

INTERRUPTED_TEXT == "Automode interrupted. How can I assist you further?"

UserMessage(text) == Message("user", StrContent(text))

ImageMessage == Message("user", ListContent(<<Block("image", 0), Block("text", 0)>>))

ToolUseMessage(id) == Message("assistant", ListContent(<<Block("tool_use", id)>>))

\* bug variant: the result does not carry the id of its tool_use
ToolResultMessage_no_id(id) == Message("user", ListContent(<<Block("tool_result", 0)>>))

ToolResultMessage(id) == Message("user", ListContent(<<Block("tool_result", id)>>))

InterruptedMessage == Message("assistant", StrContent(INTERRUPTED_TEXT))

\* code_execution.py analyze_code_execution: one user message
AnalysisMessages == <<UserMessage("Analyze this code execution")>>

\* The assembled assistant_response string, as what is observed of it: the
\* kinds of pieces appended so far ("text", "tool_checker", "error",
\* "retry_result") and whether CONTINUATION_EXIT_PHRASE occurs in it.
\* The string is empty iff it has no piece.
EmptyResponse == [pieces |-> {}, exit_phrase |-> FALSE]

AddPiece(response, piece, text) ==
    [pieces |-> response.pieces \cup {piece},
     exit_phrase |-> response.exit_phrase \/ In(CONTINUATION_EXIT_PHRASE, text)]

\* assistant_response += content_block.text
AddText(response, text) ==
    IF text = <<>> THEN response ELSE AddPiece(response, "text", text)

MainTexts == {<<>>, <<"Done.">>, <<CONTINUATION_EXIT_PHRASE>>}

CheckerTexts == {<<"Done.">>, <<"Need To Retry">>, <<CONTINUATION_EXIT_PHRASE>>}

NoReturn == [kind |-> "none", response |-> EmptyResponse, flag |-> FALSE]

ReturnValue(response, flag) == [kind |-> "value", response |-> response, flag |-> flag]

RaisedException == [kind |-> "exception", response |-> EmptyResponse, flag |-> FALSE]

----------------------------------------------------------------------------
(* Tools *)

DeclaredTools ==
    {"create_folders", "scan_folder", "create_files", "edit_and_apply_multiple",
     "execute_code", "stop_process", "read_multiple_files", "list_files",
     "tavily_search"}

ToolNames == DeclaredTools \cup {"undeclared_tool"}

\* tool_use.input: valid = every required key of the schema is present;
\* files = tool_input['files'] of edit_and_apply_multiple.
ToolInput(valid, files) == [valid |-> valid, files |-> files]

NoInput == ToolInput(FALSE, <<>>)

EditPaths == {"a.py", "/etc/passwd"}

EditFiles == {FileInput(p, TRUE) : p \in EditPaths} \cup {FileInput(NoKey, TRUE)}

\* the declared tools whose input schema has a "required" list (for
\* create_files: the path and content of each file); list_files has none
RequiredFieldTools == DeclaredTools \ {"list_files"}

ToolInputs(name) ==
    IF name = "edit_and_apply_multiple"
    THEN {ToolInput(TRUE, files) : files \in SeqsUpTo(EditFiles, MaxEditFiles)}
             \cup {ToolInput(FALSE, <<>>)}
    ELSE IF name \in RequiredFieldTools THEN {ToolInput(v, <<>>) : v \in BOOLEAN}
    ELSE {ToolInput(TRUE, <<>>)}

\* generate_edit_instructions: one user message
EditInstructionMessages == <<UserMessage("Generate edit instructions for the file")>>

\* What a tool call gives: it raised, or returned result; requests are the
\* message lists the tool itself hands to generate_response.
Outcome(raised, result, requests) ==
    [raised |-> raised, result |-> result, requests |-> requests]

\* generate_edit_instructions is reached by the files whose try block passes
\* the claude_client attribute lookup, i.e. the files edited successfully
edit_requests(result) ==
    IF \E i \in 1 .. Len(result.items) : result.items[i].status = "success"
    THEN {EditInstructionMessages} ELSE {}

\* the names execute_tool has a branch for
ExecutorTools ==
    {"create_folders", "edit_and_apply_multiple", "execute_code", "stop_process",
     "read_multiple_files", "list_files"}

\* bug variant: an unknown name raises instead of returning the envelope
execute_tool_unknown_raises(name, input, on_disk, backend_ok) ==
    IF name \in {"create_folders", "stop_process", "read_multiple_files"}
    THEN Outcome(FALSE, IF input.valid THEN DictResult(FALSE)
                        ELSE ExceptionEnvelope(name), {})
    ELSE IF name = "edit_and_apply_multiple"
    THEN IF ~input.valid THEN Outcome(FALSE, ErrorEnvelope, {})
         ELSE LET edited == edit_and_apply_multiple(input.files, on_disk)
              IN  Outcome(FALSE, IF edited.raised THEN ErrorEnvelope ELSE edited.result,
                          edit_requests(edited.result))
    ELSE IF name = "execute_code"
    THEN IF ~input.valid THEN Outcome(FALSE, ExceptionEnvelope(name), {})
         ELSE Outcome(FALSE, DictResult(FALSE),
                      IF backend_ok THEN {AnalysisMessages} ELSE {})
    ELSE IF name = "list_files"
    THEN Outcome(FALSE, DictResult(FALSE), {})
    ELSE Outcome(TRUE, UnknownToolEnvelope(name), {})

\* ChatManager.execute_tool: everything raised inside becomes the envelope.
\* backend_ok: the code ran to completion (so that its execution is analysed).
execute_tool(name, input, on_disk, backend_ok) ==
    IF name \in {"create_folders", "stop_process", "read_multiple_files"}
    THEN Outcome(FALSE, IF input.valid THEN DictResult(FALSE)
                        ELSE ExceptionEnvelope(name), {})
    ELSE IF name = "edit_and_apply_multiple"
    THEN IF ~input.valid THEN Outcome(FALSE, ErrorEnvelope, {})
         ELSE LET edited == edit_and_apply_multiple(input.files, on_disk)
              IN  Outcome(FALSE, IF edited.raised THEN ErrorEnvelope ELSE edited.result,
                          edit_requests(edited.result))
    ELSE IF name = "execute_code"
    THEN IF ~input.valid THEN Outcome(FALSE, ExceptionEnvelope(name), {})
         ELSE Outcome(FALSE, DictResult(FALSE),
                      IF backend_ok THEN {AnalysisMessages} ELSE {})
    ELSE IF name = "list_files"
    THEN Outcome(FALSE, DictResult(FALSE), {})
    ELSE Outcome(FALSE, UnknownToolEnvelope(name), {})

\* chat_with_claude lines 226-231: create_files and tavily_search are called
\* directly, outside any try; the rest goes through execute_tool.
\* backend_ok: the search backend / the file system did not fail.
\* create_files raises when a file has no 'path' (the except handler at
\* file_operations.py:39 indexes it again) or when makedirs at line 28 fails;
\* tavily_search raises on a missing 'query' and on any backend failure.
call_tool(name, input, on_disk, backend_ok) ==
    IF name = "create_files"
    THEN Outcome(~input.valid \/ ~backend_ok, DictResult(FALSE), {})
    ELSE IF name = "tavily_search"
    THEN Outcome(~input.valid \/ ~backend_ok, ListResult(<<>>), {})
    ELSE execute_tool(name, input, on_disk, backend_ok)

\* the names some branch of lines 226-231 / execute_tool handles
RegisteredTools == ExecutorTools \cup {"create_files", "tavily_search"}

----------------------------------------------------------------------------
(* The stores of a session *)

\* a dict with no key
EmptyDict == [k \in {} |-> ""]

\* dict[key] = value
DictSet(dict, key, value) ==
    [k \in DOMAIN dict \cup {key} |-> IF k = key THEN value ELSE dict[k]]

TokenModels == {"main_model", "tool_checker", "code_editor", "code_execution"}

ZeroUsage == [model \in TokenModels |-> [input |-> 0, output |-> 0]]

update_token_usage(usage, model, input_tokens, output_tokens) ==
    IF model \in DOMAIN usage
    THEN [usage EXCEPT ![model] = [input |-> @.input + input_tokens,
                                   output |-> @.output + output_tokens]]
    ELSE usage

reset_token_usage(usage) == [model \in DOMAIN usage |-> [input |-> 0, output |-> 0]]

\* TokenTracker defines reset_token_usage; it has no method named reset
TokenTracker_has_reset == FALSE

\* CodeExecutor has no method named reset
CodeExecutor_has_reset == FALSE

\* os.path.join(os.getcwd(), '_generations', file_path)
GenerationsPath(file_path) == <<"<cwd>", "_generations", file_path>>

FileOperations_update_file_contents(file_contents, file_path, content) ==
    DictSet(file_contents, GenerationsPath(file_path), content)

\* create_files line 36 and read_multiple_files line 89: the content of a
\* file that was written or read is stored under its full path (the store
\* of edit_and_apply_multiple, line 72, is behind the call that raises)
FileTools == {"create_files", "read_multiple_files"}

FileOperations_tool_writes(file_contents, name, path, content, done) ==
    IF name \in FileTools /\ done
    THEN DictSet(file_contents, GenerationsPath(path), content)
    ELSE file_contents

EmptyCodeEditor == [code_editor_memory |-> <<>>, code_editor_files |-> {}]

\* the stores after reset_conversation, and whether it raised
reset_conversation(stores) ==
    LET conversation_reset ==
            [stores EXCEPT !.history = <<>>, !.conv_files = EmptyDict]
        others_reset ==
            [conversation_reset EXCEPT !.token_usage = reset_token_usage(@),
                                       !.file_contents = EmptyDict,
                                       !.code_editor = EmptyCodeEditor]
    IN  IF ~TokenTracker_has_reset
        THEN [stores |-> conversation_reset, raised |-> TRUE]
        ELSE [stores |-> others_reset, raised |-> ~CodeExecutor_has_reset]

----------------------------------------------------------------------------
(* CodeExecutor.  A pid is a positive number; 0 stands for None.           *)

NoPid == 0

NoCall == [op |-> "none", pid |-> NoPid, outcome |-> "", was_alive |-> FALSE]

NoResult == [output |-> "None", error |-> "None", process_id |-> NoPid]

\* lines 59-64
TimeoutReport(pid) ==
    [output |-> "Execution timed out after 60 seconds.", error |-> "None",
     process_id |-> pid]

\* lines 72-82
CompletedResult ==
    [output |-> "<stdout>", error |-> "<stderr or None>", process_id |-> NoPid,
     analysis |-> "<analysis>"]

\* line 85
FailedResult ==
    [output |-> "None", error |-> "<str(e)>", process_id |-> NoPid, analysis |-> "None"]

\* what the run of the code does: the spawn fails (an exception before line
\* 54), it ends within the 60 seconds, or it does not
ExecuteOutcomes == {"spawn_fails", "completes", "times_out"}

\* bug variant: the entry is removed on the timeout path as well
execute_code_untracked(table, alive, pid, outcome) ==
    IF outcome = "spawn_fails"
    THEN [running_processes |-> table, alive |-> alive, result |-> FailedResult]
    ELSE IF outcome = "times_out"
    THEN [running_processes |-> (table \cup {pid}) \ {pid},
          alive |-> alive \cup {pid},
          result |-> TimeoutReport(pid)]
    ELSE [running_processes |-> (table \cup {pid}) \ {pid},
          alive |-> alive,
          result |-> CompletedResult]

\* execute_code: the table and the running processes after the call, and
\* what it returns.  Line 54 stores the process; only the path past the
\* wait deletes it (line 67).
execute_code(table, alive, pid, outcome) ==
    IF outcome = "spawn_fails"
    THEN [running_processes |-> table, alive |-> alive, result |-> FailedResult]
    ELSE IF outcome = "times_out"
    THEN [running_processes |-> table \cup {pid},
          alive |-> alive \cup {pid},
          result |-> TimeoutReport(pid)]
    ELSE [running_processes |-> (table \cup {pid}) \ {pid},
          alive |-> alive,
          result |-> CompletedResult]

StopResult(success, message) == [success |-> success, message |-> message]

\* process.wait(timeout=5) at line 108.  The object stored at line 54 comes
\* from asyncio.create_subprocess_shell (line 47): its wait() takes no
\* timeout argument, so the call raises TypeError.
ProcessWaitOutcomes == {"raises"}

\* stop_process: the table after the call, the signals sent and what it
\* returns.  kill_ok: os.kill finds the process (it raises for one that is
\* gone).
stop_process(table, process_id, kill_ok, wait) ==
    IF process_id \in table
    THEN IF ~kill_ok
         THEN [running_processes |-> table, signals |-> {},
               result |-> StopResult(FALSE, "Error stopping process")]
         ELSE IF wait = "returns"
         THEN [running_processes |-> table \ {process_id}, signals |-> {"SIGTERM"},
               result |-> StopResult(TRUE, "has been terminated")]
         ELSE IF wait = "TimeoutExpired"
         THEN [running_processes |-> table, signals |-> {"SIGTERM", "SIGKILL"},
               result |-> StopResult(TRUE, "has been forcefully terminated")]
         ELSE [running_processes |-> table, signals |-> {"SIGTERM"},
               result |-> StopResult(FALSE, "Error stopping process")]
    ELSE [running_processes |-> table, signals |-> {},
          result |-> StopResult(FALSE, "not found or already terminated")]

----------------------------------------------------------------------------
(* Conversation.save_to_file.  A text (a message body, a file's content,   *)
(* the file written) is the list of its lines, i.e. the text split at      *)
(* "\n"; every write of save_to_file ends with "\n", so the file is a list *)
(* of whole lines.                                                         *)

\* f"## {role.capitalize()}"
RoleHeader(role) == IF role = "user" THEN "## User" ELSE "## Assistant"

\* f"### {file_path}"
FileHeader(file_path) == IF file_path = "a.py" THEN "### a.py" ELSE "### notes.md"

\* the line of three backquotes that opens and closes a fenced block
FENCE == "<three backquotes>"

\* lines 53-60: the items of a list content
RECURSIVE save_items(_, _)
save_items(blocks, i) ==
    IF i > Len(blocks) THEN <<>>
    ELSE (IF blocks[i].type = "image" THEN <<"[Image data not displayed]", "">>
          ELSE IF blocks[i].type = "text" THEN blocks[i].text \o <<"">>
          ELSE <<>>) \o save_items(blocks, i + 1)

\* lines 48-62: for message in self.history
RECURSIVE save_messages(_, _)
save_messages(h, i) ==
    IF i > Len(h) THEN <<>>
    ELSE <<RoleHeader(h[i].role), "">>
             \o (IF h[i].content.kind = "list" THEN save_items(h[i].content.blocks, 1)
                 ELSE h[i].content.text \o <<"">>)
             \o save_messages(h, i + 1)

\* lines 65-69: for file_path, content in self.file_contents.items()
RECURSIVE save_files(_, _)
save_files(files, i) ==
    IF i > Len(files) THEN <<>>
    ELSE <<FileHeader(files[i].path), "", FENCE>> \o files[i].content \o <<FENCE, "">>
             \o save_files(files, i + 1)

\* the lines written by save_to_file
save_to_file(h, files) ==
    <<"# Chat History", "">> \o save_messages(h, 1)
        \o <<"## File Contents", "">> \o save_files(files, 1)

----------------------------------------------------------------------------
(* Re-reading an export, by the layout the specification gives for it: one *)
(* "## Role" section per message, then "## File Contents" with one fenced  *)
(* subsection per tracked file.                                            *)

SectionHeaders == {"## User", "## Assistant", "## File Contents"}

\* the first section header at or after line i
RECURSIVE NextHeader(_, _)
NextHeader(lines, i) ==
    IF i > Len(lines) THEN i
    ELSE IF lines[i] \in SectionHeaders THEN i
    ELSE NextHeader(lines, i + 1)

\* the first fence at or after line i
RECURSIVE NextFence(_, _)
NextFence(lines, i) ==
    IF i > Len(lines) THEN i
    ELSE IF lines[i] = FENCE THEN i
    ELSE NextFence(lines, i + 1)

\* the fenced subsections from line i on: header, blank, fence, content, fence, blank
RECURSIVE read_files(_, _)
read_files(lines, i) ==
    IF i + 2 > Len(lines) THEN <<>>
    ELSE LET close == NextFence(lines, i + 3)
         IN  <<[header |-> lines[i], content |-> SubSeq(lines, i + 3, close - 1)]>>
                 \o read_files(lines, close + 2)

\* the sections from the header at line i on: header, blank, body, blank
RECURSIVE read_sections(_, _)
read_sections(lines, i) ==
    IF i > Len(lines) THEN [bodies |-> <<>>, files |-> <<>>]
    ELSE IF lines[i] = "## File Contents"
    THEN [bodies |-> <<>>, files |-> read_files(lines, i + 2)]
    ELSE LET next == NextHeader(lines, i + 1)
             rest == read_sections(lines, next)
         IN  [bodies |-> <<[header |-> lines[i], body |-> SubSeq(lines, i + 2, next - 2)]>>
                             \o rest.bodies,
              files |-> rest.files]

read_artifact(lines) == read_sections(lines, NextHeader(lines, 1))

\* what re-reading an export gives before anything was exported
NoReread == [bodies |-> <<>>, files |-> <<>>]

----------------------------------------------------------------------------
(* Initial state of the program *)

TurnIdle ==
    /\ current_conversation = <<>>
    /\ filtered_conversation_history = <<>>
    /\ messages = <<>>
    /\ assistant_response = EmptyResponse
    /\ exit_continuation = FALSE
    /\ tool_uses = <<>>
    /\ tool_index = 0

ToolIdle ==
    /\ tool_name = ""
    /\ tool_input = NoInput
    /\ tool_result = DictResult(FALSE)
    /\ tool_checker_response = <<>>
    /\ retry_decision = NoDecision
    /\ edit_calls = 0

\* the frame of chat_with_claude is gone
TurnCleared ==
    /\ current_conversation' = <<>>
    /\ filtered_conversation_history' = <<>>
    /\ messages' = <<>>
    /\ assistant_response' = EmptyResponse
    /\ exit_continuation' = FALSE
    /\ tool_uses' = <<>>
    /\ tool_index' = 0
    /\ tool_name' = ""
    /\ tool_input' = NoInput
    /\ tool_result' = DictResult(FALSE)
    /\ tool_checker_response' = <<>>
    /\ retry_decision' = NoDecision
    /\ edit_calls' = 0

ProgInit(start) ==
    /\ pc = start
    /\ history = <<>>
    /\ automode = FALSE
    /\ max_iterations = 0
    /\ iteration_count = 0
    /\ error_count = 0
    /\ auto_user_input = ""
    /\ auto_reported = <<>>
    /\ auto_calls = 0
    /\ auto_done_at = 0
    /\ auto_ok = 0
    /\ auto_streak = 0
    /\ auto_earlier = {}
    /\ caller = "none"
    /\ ret = NoReturn
    /\ sent = {}
    /\ TurnIdle
    /\ ToolIdle

RepairIdle ==
    /\ rep_pc = "idle"
    /\ rep_input = <<>>
    /\ rep_cm = <<>>
    /\ rep_cc = <<>>
    /\ rep_twice = <<>>

RetryIdle ==
    /\ rt_pc = "idle"
    /\ rt_response = <<>>
    /\ rt_results = ListResult(<<>>)
    /\ rt_decision = NoDecision

NoRun ==
    [name |-> "", input |-> NoInput, path |-> "", on_disk |-> {}, backend_ok |-> TRUE]

DispatchIdle ==
    /\ td_pc = "idle"
    /\ td_run = NoRun
    /\ td_outcome = Outcome(FALSE, DictResult(FALSE), {})
    /\ td_touched = {}

\* the stores as the constructors leave them
StoresEmpty ==
    /\ ss_history = <<>>
    /\ ss_conv_files = EmptyDict
    /\ ss_token_usage = ZeroUsage
    /\ ss_file_contents = EmptyDict
    /\ ss_code_editor = EmptyCodeEditor
    /\ ss_reset = FALSE

SessionIdle == ss_pc = "idle" /\ StoresEmpty

ExecutorEmpty ==
    /\ running_processes = {}
    /\ ex_alive = {}
    /\ ex_spawned = {}
    /\ ex_completed = {}
    /\ ex_timed_out = {}
    /\ ex_terminated = {}
    /\ ex_last = NoCall
    /\ ex_result = NoResult

ExecutorIdle == ex_pc = "idle" /\ ExecutorEmpty

FilterIdle ==
    /\ fh_pc = "idle"
    /\ fh_history = <<>>
    /\ fh_filtered = <<>>

ExportIdle ==
    /\ sv_pc = "idle"
    /\ sv_history = <<>>
    /\ sv_file_contents = <<>>
    /\ sv_artifact = <<>>
    /\ sv_reread = NoReread

UnitsIdle == SessionIdle /\ ExecutorIdle /\ FilterIdle /\ ExportIdle

----------------------------------------------------------------------------
(* Harness for decide_retry: any bounded commentary and edit-result list   *)
(* (entries with or without an is_error key), or the error envelope that   *)
(* execute_tool returns when the edit tool raises.                         *)

HarnessEntries ==
    {EditEntry("a.py", st, "", e) : st \in {"success", "error"},
                                    e \in {"absent", "true", "false"}}

HarnessResults ==
    {ListResult(items) : items \in SeqsUpTo(HarnessEntries, MaxEntries)}
        \cup {ErrorEnvelope}

RetryInit ==
    /\ ProgInit("harness")
    /\ UnitsIdle
    /\ RepairIdle
    /\ DispatchIdle
    /\ rt_pc = "input"
    /\ rt_response \in SeqsUpTo(CommentaryTokens, MaxCommentaryLen)
    /\ rt_results \in HarnessResults
    /\ rt_decision = NoDecision

RetryDecide ==
    /\ rt_pc = "input"
    /\ rt_decision' = decide_retry(rt_response, rt_results)
    /\ rt_pc' = "decided"
    /\ UNCHANGED <<rt_response, rt_results, progVars, repVars, tdVars, unitVars>>

RetryNext == RetryDecide

SpecRetry == RetryInit /\ [][RetryNext]_vars

----------------------------------------------------------------------------
(* Harness for the repair routine: any bounded message list, repaired once *)
(* by each copy, then once more the way the main dispatch does it          *)
(* (chat_with_claude repairs, generate_response repairs again).            *)

RepairContents == {"hello", "thanks", PLACEHOLDER}

RepairMessages == {Message(r, StrContent(c)) : r \in Roles, c \in RepairContents}

RepairInit ==
    /\ ProgInit("harness")
    /\ UnitsIdle
    /\ RetryIdle
    /\ DispatchIdle
    /\ rep_pc = "input"
    /\ rep_input \in SeqsUpTo(RepairMessages, MaxLen)
    /\ rep_cm = <<>>
    /\ rep_cc = <<>>
    /\ rep_twice = <<>>

RepairOnce ==
    /\ rep_pc = "input"
    /\ rep_cm' = ChatManager_ensure_alternating_roles(rep_input)
    /\ rep_cc' = ClaudeClient_ensure_alternating_roles(rep_input)
    /\ rep_pc' = "once"
    /\ UNCHANGED <<rep_input, rep_twice, progVars, rtVars, tdVars, unitVars>>

RepairTwice ==
    /\ rep_pc = "once"
    /\ rep_twice' = ClaudeClient_ensure_alternating_roles(rep_cm)
    /\ rep_pc' = "twice"
    /\ UNCHANGED <<rep_input, rep_cm, rep_cc, progVars, rtVars, tdVars, unitVars>>

RepairNext == RepairOnce \/ RepairTwice

SpecRepair == RepairInit /\ [][RepairNext]_vars

----------------------------------------------------------------------------
(* Harness for the tool dispatch of lines 226-231: any tool name, input,   *)
(* path argument and environment; the outcome of the call and the paths    *)
(* the tool handed to the file system.                                     *)

\* a relative path with a .. segment
IsTraversal(p) == p \in {"../secret.txt"}

\* the path, joined to the _generations directory, resolves outside it
OutsideSandbox(p) == IsAbsolute(p) \/ IsTraversal(p)

HarnessPaths == {"a.py", "/etc/passwd", "../secret.txt"}

HarnessEditFiles ==
    {FileInput(p, TRUE) : p \in HarnessPaths}
        \cup {FileInput(NoKey, TRUE), FileInput("a.py", FALSE)}

HarnessOnDisk == SUBSET {"a.py", "../secret.txt"}

\* the tools other than the edit tool that take a path
PathTools == {"create_folders", "create_files", "read_multiple_files", "list_files"}

\* edit_and_apply_multiple: the paths that reach open() at line 57, i.e. the
\* files before the first one without 'path' that pass the check of line 53
RECURSIVE edit_opened(_, _)
edit_opened(files, i) ==
    IF i > Len(files) THEN {}
    ELSE IF files[i].path = NoKey THEN {}
    ELSE (IF files[i].instructions /\ StartsWithGenerations(files[i].path)
          THEN {files[i].path} ELSE {}) \cup edit_opened(files, i + 1)

\* the paths a tool hands to os.makedirs (file_operations.py:18, 33),
\* open (lines 34, 57, 87) or os.walk (line 100); none of the four path
\* tools compares the joined path with the _generations directory
touched_paths(run) ==
    IF run.name \in {"create_folders", "read_multiple_files"}
    THEN IF run.input.valid THEN {run.path} ELSE {}
    ELSE IF run.name = "create_files"
    THEN IF run.input.valid /\ run.backend_ok THEN {run.path} ELSE {}
    ELSE IF run.name = "list_files" THEN {run.path}
    ELSE IF run.name = "edit_and_apply_multiple"
    THEN IF run.input.valid THEN edit_opened(run.input.files, 1) ELSE {}
    ELSE {}

HarnessToolInputs(name) ==
    IF name = "edit_and_apply_multiple"
    THEN {ToolInput(TRUE, files) : files \in SeqsUpTo(HarnessEditFiles, MaxHarnessFiles)}
             \cup {ToolInput(FALSE, <<>>)}
    ELSE ToolInputs(name)

HarnessRuns ==
    UNION {{[name |-> name, input |-> input, path |-> path, on_disk |-> on_disk,
             backend_ok |-> ok] :
               input \in HarnessToolInputs(name),
               path \in (IF name \in PathTools THEN HarnessPaths ELSE {""}),
               on_disk \in (IF name = "edit_and_apply_multiple" THEN HarnessOnDisk
                            ELSE {{}}),
               ok \in (IF name \in {"create_files", "tavily_search", "execute_code"}
                       THEN BOOLEAN ELSE {TRUE})} : name \in ToolNames}

DispatchInit ==
    /\ ProgInit("harness")
    /\ UnitsIdle
    /\ RepairIdle
    /\ RetryIdle
    /\ td_pc = "input"
    /\ td_run \in HarnessRuns
    /\ td_outcome = Outcome(FALSE, DictResult(FALSE), {})
    /\ td_touched = {}

Dispatch ==
    /\ td_pc = "input"
    /\ td_outcome' = call_tool(td_run.name, td_run.input, td_run.on_disk,
                               td_run.backend_ok)
    /\ td_touched' = touched_paths(td_run)
    /\ td_pc' = "done"
    /\ UNCHANGED <<td_run, progVars, repVars, rtVars, unitVars>>

DispatchNext == Dispatch

SpecTool == DispatchInit /\ [][DispatchNext]_vars

----------------------------------------------------------------------------
(* ChatManager.chat_with_claude, one action per stretch between two awaits *)

HarnessesIdle == UNCHANGED <<repVars, rtVars, tdVars, unitVars>>

\* bug variant: the repaired list is written back to the history
ChatStart_stores_repair(who, message) ==
    LET h == Append(history, message)
        filtered == filter_history(h, 1)
        current == <<message>>
        repaired == ChatManager_ensure_alternating_roles(filtered \o current)
    IN  /\ history' = repaired
        /\ caller' = who
        /\ current_conversation' = current
        /\ filtered_conversation_history' = filtered
        /\ messages' = repaired
        /\ sent' = {ClaudeClient_generate_response(repaired)}
        /\ ret' = NoReturn
        /\ pc' = "main_model"
        /\ UNCHANGED <<assistant_response, exit_continuation, tool_uses, tool_index,
                       toolVars>>

\* lines 150-194: the user message goes to the history and to the turn
\* buffer, the history is filtered, the list repaired and handed to
\* generate_response.
ChatStart(who, message) ==
    LET h == Append(history, message)
        filtered == filter_history(h, 1)
        current == <<message>>
        repaired == ChatManager_ensure_alternating_roles(filtered \o current)
    IN  /\ history' = h
        /\ caller' = who
        /\ current_conversation' = current
        /\ filtered_conversation_history' = filtered
        /\ messages' = repaired
        /\ sent' = {ClaudeClient_generate_response(repaired)}
        /\ ret' = NoReturn
        /\ pc' = "main_model"
        /\ UNCHANGED <<assistant_response, exit_continuation, tool_uses, tool_index,
                       toolVars>>

\* bug variant: the exception of the main call is raised to the caller
MainModelRaises_reraises ==
    /\ pc = "main_model"
    /\ ret' = RaisedException
    /\ sent' = {}
    /\ pc' = "returned"
    /\ TurnCleared
    /\ UNCHANGED <<history, caller, autoVars>>
    /\ HarnessesIdle

\* lines 196-200: the main model call raised
MainModelRaises ==
    /\ pc = "main_model"
    /\ ret' = ReturnValue(AddPiece(EmptyResponse, "error", <<>>), FALSE)
    /\ sent' = {}
    /\ pc' = "returned"
    /\ TurnCleared
    /\ UNCHANGED <<history, caller, autoVars>>
    /\ HarnessesIdle

\* lines 195, 202-216: the response is split into text and tool_use blocks
MainModelResponds(text, n) ==
    /\ pc = "main_model"
    /\ assistant_response' = AddText(EmptyResponse, text)
    /\ exit_continuation' = In(CONTINUATION_EXIT_PHRASE, text)
    /\ tool_uses' = [i \in 1 .. n |-> i]
    /\ tool_index' = 1
    /\ sent' = {}
    /\ pc' = "tool_loop"
    /\ UNCHANGED <<history, caller, ret, autoVars, current_conversation,
                   filtered_conversation_history, messages, toolVars>>
    /\ HarnessesIdle

\* lines 219-277: the next tool_use block is read and executed; unless the
\* tool raised, the tool_use / tool_result pair is appended and the turn
\* buffer handed to generate_response for the follow-up.  An exception of
\* the tool leaves chat_with_claude.
ToolExecute(name, input, on_disk, backend_ok) ==
    /\ pc = "tool_loop"
    /\ tool_index <= Len(tool_uses)
    /\ LET tool_use_id == tool_uses[tool_index]
           outcome == call_tool(name, input, on_disk, backend_ok)
           current == current_conversation
                          \o <<ToolUseMessage(tool_use_id), ToolResultMessage(tool_use_id)>>
           request == filtered_conversation_history \o current
       IN  IF outcome.raised
           THEN /\ ret' = RaisedException
                /\ sent' = {}
                /\ pc' = "returned"
                /\ TurnCleared
           ELSE /\ tool_name' = name
                /\ tool_input' = input
                /\ tool_result' = outcome.result
                /\ tool_checker_response' = <<>>
                /\ retry_decision' = NoDecision
                /\ edit_calls' = IF name = "edit_and_apply_multiple" /\ input.valid
                                 THEN 1 ELSE 0
                /\ current_conversation' = current
                /\ messages' = request
                /\ sent' = {ClaudeClient_generate_response(r) : r \in outcome.requests}
                               \cup {ClaudeClient_generate_response(request)}
                /\ pc' = "tool_checker"
                /\ UNCHANGED <<ret, filtered_conversation_history, assistant_response,
                               exit_continuation, tool_uses, tool_index>>
    /\ UNCHANGED <<history, caller, autoVars>>
    /\ HarnessesIdle

\* bug variant: the exception of the follow-up call leaves chat_with_claude
FollowUpRaises_aborts ==
    /\ pc = "tool_checker"
    /\ ret' = RaisedException
    /\ sent' = {}
    /\ pc' = "returned"
    /\ TurnCleared
    /\ UNCHANGED <<history, caller, autoVars>>
    /\ HarnessesIdle

\* bug variant: after a failed follow-up the next tool call is skipped
FollowUpRaises_skips_next ==
    /\ pc = "tool_checker"
    /\ assistant_response' = AddPiece(assistant_response, "error", <<>>)
    /\ tool_index' = tool_index + 2
    /\ sent' = {}
    /\ pc' = "tool_loop"
    /\ UNCHANGED <<history, caller, ret, autoVars, current_conversation,
                   filtered_conversation_history, messages, exit_continuation,
                   tool_uses, toolVars>>
    /\ HarnessesIdle

\* lines 295-298: the follow-up call raised
FollowUpRaises ==
    /\ pc = "tool_checker"
    /\ assistant_response' = AddPiece(assistant_response, "error", <<>>)
    /\ tool_index' = tool_index + 1
    /\ sent' = {}
    /\ pc' = "tool_loop"
    /\ UNCHANGED <<history, caller, ret, autoVars, current_conversation,
                   filtered_conversation_history, messages, exit_continuation,
                   tool_uses, toolVars>>
    /\ HarnessesIdle

\* lines 286-291 once decide_retry has returned retry = True: the pieces
\* added to assistant_response.  Unpacking the list returned by
\* edit_and_apply_multiple into two names raises unless it has two entries.
RetryEdit(response, decision, on_disk) ==
    LET retry_files ==
            SelectSeq(tool_input.files, LAMBDA file : file.path \in decision.files_to_retry)
        retried == edit_and_apply_multiple(retry_files, on_disk)
    IN  IF retried.raised \/ Len(retried.result.items) # 2
        THEN AddPiece(response, "error", <<>>)
        ELSE AddPiece(response, "retry_result", <<>>)

\* bug variant: no retry is considered once the history holds more than
\* one message
FollowUpResponds_by_history(text, on_disk) ==
    /\ pc = "tool_checker"
    /\ tool_checker_response' = text
    /\ LET appended == AddPiece(assistant_response, "tool_checker", text)
           decision == IF Len(history) > 1 THEN Returned(FALSE, {})
                       ELSE decide_retry(text, tool_result)
       IN  IF tool_name = "edit_and_apply_multiple"
           THEN /\ retry_decision' = decision
                /\ IF decision.raised # ""
                   THEN /\ assistant_response' = AddPiece(appended, "error", <<>>)
                        /\ edit_calls' = edit_calls
                   ELSE IF decision.retry
                   THEN /\ assistant_response' = RetryEdit(appended, decision, on_disk)
                        /\ edit_calls' = edit_calls + 1
                   ELSE /\ assistant_response' = appended
                        /\ edit_calls' = edit_calls
           ELSE /\ retry_decision' = NoDecision
                /\ assistant_response' = appended
                /\ edit_calls' = edit_calls
    /\ tool_index' = tool_index + 1
    /\ sent' = {}
    /\ pc' = "tool_loop"
    /\ UNCHANGED <<history, caller, ret, autoVars, current_conversation,
                   filtered_conversation_history, messages, exit_continuation,
                   tool_uses, tool_name, tool_input, tool_result>>
    /\ HarnessesIdle

\* bug variant: the edit is run again whenever the decision did not return
\* "no retry", and the result of that edit gets a follow-up and a decision
\* of its own
FollowUpResponds_decides_again(text, on_disk) ==
    /\ pc = "tool_checker"
    /\ tool_checker_response' = text
    /\ LET appended == AddPiece(assistant_response, "tool_checker", text)
           decision == decide_retry(text, tool_result)
           again == tool_name = "edit_and_apply_multiple"
                        /\ (decision.raised # "" \/ decision.retry)
       IN  /\ retry_decision' = IF tool_name = "edit_and_apply_multiple"
                                THEN decision ELSE NoDecision
           /\ assistant_response' = IF again THEN RetryEdit(appended, decision, on_disk)
                                    ELSE appended
           /\ edit_calls' = IF again THEN edit_calls + 1 ELSE edit_calls
           /\ tool_index' = IF again THEN tool_index ELSE tool_index + 1
           /\ pc' = IF again THEN "tool_checker" ELSE "tool_loop"
    /\ sent' = {}
    /\ UNCHANGED <<history, caller, ret, autoVars, current_conversation,
                   filtered_conversation_history, messages, exit_continuation,
                   tool_uses, tool_name, tool_input, tool_result>>
    /\ HarnessesIdle

\* bug variant: the exit phrase in the follow-up text sets the flag as well
FollowUpResponds_sets_flag(text, on_disk) ==
    /\ pc = "tool_checker"
    /\ tool_checker_response' = text
    /\ LET appended == AddPiece(assistant_response, "tool_checker", text)
           decision == decide_retry(text, tool_result)
       IN  IF tool_name = "edit_and_apply_multiple"
           THEN /\ retry_decision' = decision
                /\ IF decision.raised # ""
                   THEN /\ assistant_response' = AddPiece(appended, "error", <<>>)
                        /\ edit_calls' = edit_calls
                   ELSE IF decision.retry
                   THEN /\ assistant_response' = RetryEdit(appended, decision, on_disk)
                        /\ edit_calls' = edit_calls + 1
                   ELSE /\ assistant_response' = appended
                        /\ edit_calls' = edit_calls
           ELSE /\ retry_decision' = NoDecision
                /\ assistant_response' = appended
                /\ edit_calls' = edit_calls
    /\ tool_index' = tool_index + 1
    /\ sent' = {}
    /\ pc' = "tool_loop"
    /\ exit_continuation' = (exit_continuation \/ In(CONTINUATION_EXIT_PHRASE, text))
    /\ UNCHANGED <<history, caller, ret, autoVars, current_conversation,
                   filtered_conversation_history, messages,
                   tool_uses, tool_name, tool_input, tool_result>>
    /\ HarnessesIdle

\* lines 278-298: the follow-up text is appended; for the edit tool the
\* retry decision is taken and, if it says so, the edit is run again.  An
\* exception anywhere is appended as inline error text.
FollowUpResponds(text, on_disk) ==
    /\ pc = "tool_checker"
    /\ tool_checker_response' = text
    /\ LET appended == AddPiece(assistant_response, "tool_checker", text)
           decision == decide_retry(text, tool_result)
       IN  IF tool_name = "edit_and_apply_multiple"
           THEN /\ retry_decision' = decision
                /\ IF decision.raised # ""
                   THEN /\ assistant_response' = AddPiece(appended, "error", <<>>)
                        /\ edit_calls' = edit_calls
                   ELSE IF decision.retry
                   THEN /\ assistant_response' = RetryEdit(appended, decision, on_disk)
                        /\ edit_calls' = edit_calls + 1
                   ELSE /\ assistant_response' = appended
                        /\ edit_calls' = edit_calls
           ELSE /\ retry_decision' = NoDecision
                /\ assistant_response' = appended
                /\ edit_calls' = edit_calls
    /\ tool_index' = tool_index + 1
    /\ sent' = {}
    /\ pc' = "tool_loop"
    /\ UNCHANGED <<history, caller, ret, autoVars, current_conversation,
                   filtered_conversation_history, messages, exit_continuation,
                   tool_uses, tool_name, tool_input, tool_result>>
    /\ HarnessesIdle

\* lines 300-308: the tool loop is over; the reply is appended to the local
\* list `messages` only (the add_message call is commented out), and
\* (assistant_response, exit_continuation) is returned: the frame is gone.
ToolLoopEnds ==
    /\ pc = "tool_loop"
    /\ tool_index > Len(tool_uses)
    /\ ret' = ReturnValue(assistant_response, exit_continuation)
    /\ sent' = {}
    /\ pc' = "returned"
    /\ TurnCleared
    /\ UNCHANGED <<history, caller, autoVars>>
    /\ HarnessesIdle

----------------------------------------------------------------------------
(* ChatManager.run *)

\* lines 42-44
CmdExit ==
    /\ pc = "run"
    /\ pc' = "exited"
    /\ UNCHANGED <<history, caller, ret, sent, autoVars, turnVars, toolVars>>
    /\ HarnessesIdle

\* lines 46-50, 67-69: a confirmed reset clears the conversation, then
\* self.token_tracker.reset() raises AttributeError (TokenTracker has
\* reset_token_usage only) and the exception leaves run().
CmdReset(confirmed) ==
    /\ pc = "run"
    /\ IF confirmed
       THEN history' = <<>> /\ pc' = "exited"
       ELSE history' = history /\ pc' = "run"
    /\ UNCHANGED <<caller, ret, sent, autoVars, turnVars, toolVars>>
    /\ HarnessesIdle

\* lines 60-61, 146-147
CmdRegular ==
    /\ pc = "run"
    /\ Len(history) < MaxHistory
    /\ ChatStart("regular", UserMessage(USER_TEXT))
    /\ UNCHANGED autoVars
    /\ HarnessesIdle

\* lines 56-57, 82-94, 153-178: with a readable image the turn starts with an
\* image message; otherwise an error is displayed and nothing changes.
CmdImage(readable) ==
    /\ pc = "run"
    /\ Len(history) < MaxHistory
    /\ IF readable
       THEN ChatStart("image", ImageMessage)
       ELSE UNCHANGED <<pc, history, caller, ret, sent, turnVars, toolVars>>
    /\ UNCHANGED autoVars
    /\ HarnessesIdle

\* lines 146-148, 91-92: chat_with_claude came back to handle_regular_chat or
\* handle_image_input; an exception is caught nowhere and leaves run().
ChatReturnsToRun ==
    /\ pc = "returned"
    /\ caller \in {"regular", "image"}
    /\ pc' = IF ret.kind = "exception" THEN "exited" ELSE "run"
    /\ caller' = "none"
    /\ ret' = NoReturn
    /\ sent' = {}
    /\ UNCHANGED <<history, autoVars, turnVars, toolVars>>
    /\ HarnessesIdle

----------------------------------------------------------------------------
(* ChatManager.handle_automode *)

max_errors == 3

\* the reports of a run that stopped before max_iterations (lines 119, 136, 140)
EarlyEndings == {"ErrorAborted", "UserCancelled"}

\* lines 58-59, 98-104: up to the await of the goal
CmdAutomode(n) ==
    /\ pc = "run"
    /\ Len(history) < MaxHistory
    /\ automode' = TRUE
    /\ max_iterations' = n
    /\ pc' = "automode_goal"
    /\ UNCHANGED <<history, caller, ret, sent, iteration_count, error_count,
                   auto_user_input, auto_reported, auto_calls, auto_done_at, auto_ok, auto_streak, auto_earlier,
                   turnVars, toolVars>>
    /\ HarnessesIdle

\* lines 58-59, 98-104 again, later in the session: the same steps as
\* CmdAutomode, taken while the history is below MaxRunHistory, so that a
\* run can follow runs that made calls
CmdAutomodeAgain(n) ==
    /\ pc = "run"
    /\ history # <<>>
    /\ Len(history) < MaxRunHistory
    /\ automode' = TRUE
    /\ max_iterations' = n
    /\ pc' = "automode_goal"
    /\ UNCHANGED <<history, caller, ret, sent, iteration_count, error_count,
                   auto_user_input, auto_reported, auto_calls, auto_done_at, auto_ok, auto_streak, auto_earlier,
                   turnVars, toolVars>>
    /\ HarnessesIdle

\* bug variant: a run that follows one ended by the error budget starts
\* with the budget of that run, of which one error is left
AutoGoal_keeps_budget ==
    /\ pc = "automode_goal"
    /\ auto_user_input' = USER_TEXT
    /\ iteration_count' = 0
    /\ error_count' = IF "ErrorAborted" \in auto_earlier THEN max_errors - 1 ELSE 0
    /\ pc' = "automode_while"
    /\ UNCHANGED <<history, caller, ret, sent, automode, max_iterations,
                   auto_reported, auto_calls, auto_done_at, auto_ok, auto_streak, auto_earlier, turnVars, toolVars>>
    /\ HarnessesIdle

\* lines 104-108: the goal was typed
AutoGoal ==
    /\ pc = "automode_goal"
    /\ auto_user_input' = USER_TEXT
    /\ iteration_count' = 0
    /\ error_count' = 0
    /\ pc' = "automode_while"
    /\ UNCHANGED <<history, caller, ret, sent, automode, max_iterations,
                   auto_reported, auto_calls, auto_done_at, auto_ok, auto_streak, auto_earlier, turnVars, toolVars>>
    /\ HarnessesIdle

\* lines 139-142: KeyboardInterrupt at the goal prompt
AutoGoalInterrupt ==
    /\ pc = "automode_goal"
    /\ auto_reported' = Append(auto_reported, "UserCancelled")
    /\ automode' = FALSE
    /\ history' = Append(history, InterruptedMessage)
    /\ pc' = "automode_exit"
    /\ UNCHANGED <<caller, ret, sent, max_iterations, iteration_count, error_count,
                   auto_user_input, auto_calls, auto_done_at, auto_ok, auto_streak, auto_earlier, turnVars, toolVars>>
    /\ HarnessesIdle

\* bug variant: the error counter is cleared before each call instead of
\* after a call that returned
AutoWhile_resets_errors ==
    /\ pc = "automode_while"
    /\ IF automode /\ iteration_count < max_iterations
       THEN /\ auto_calls' = auto_calls + 1
            /\ error_count' = 0
            /\ ChatStart("automode", UserMessage(auto_user_input))
       ELSE /\ pc' = "automode_exit"
            /\ UNCHANGED <<history, caller, ret, sent, auto_calls, error_count,
                           turnVars, toolVars>>
    /\ UNCHANGED <<automode, max_iterations, iteration_count,
                   auto_user_input, auto_reported, auto_done_at, auto_ok, auto_streak, auto_earlier>>
    /\ HarnessesIdle

\* line 111, then line 113 up to the first await of chat_with_claude
AutoWhile ==
    /\ pc = "automode_while"
    /\ IF automode /\ iteration_count < max_iterations
       THEN /\ auto_calls' = auto_calls + 1
            /\ ChatStart("automode", UserMessage(auto_user_input))
       ELSE /\ pc' = "automode_exit"
            /\ UNCHANGED <<history, caller, ret, sent, auto_calls, turnVars, toolVars>>
    /\ UNCHANGED <<automode, max_iterations, iteration_count, error_count,
                   auto_user_input, auto_reported, auto_done_at, auto_ok, auto_streak, auto_earlier>>
    /\ HarnessesIdle

\* bug variant: a call that returned leaves the error counter as it is
AutoAfterCall_keeps_errors ==
    /\ pc = "returned"
    /\ caller = "automode"
    /\ ret.kind = "value"
    /\ LET completed == ret.flag \/ ret.response.exit_phrase
           reported == IF completed THEN Append(auto_reported, "Completed")
                       ELSE auto_reported
           at_max == iteration_count + 1 >= max_iterations
       IN  /\ error_count' = error_count
           /\ auto_user_input' = IF completed THEN auto_user_input ELSE CONTINUE_PROMPT
           /\ iteration_count' = iteration_count + 1
           /\ auto_reported' = IF at_max THEN Append(reported, "MaxIterationsReached")
                               ELSE reported
           /\ automode' = IF completed \/ at_max THEN FALSE ELSE automode
    /\ auto_done_at' = IF auto_done_at = 0 /\ (ret.flag \/ ret.response.exit_phrase)
                       THEN auto_calls ELSE auto_done_at
    /\ pc' = "automode_while"
    /\ caller' = "none"
    /\ ret' = NoReturn
    /\ sent' = {}
    /\ auto_ok' = auto_ok + 1
    /\ auto_streak' = 0
    /\ UNCHANGED auto_earlier
    /\ UNCHANGED <<history, max_iterations, auto_calls, turnVars, toolVars>>
    /\ HarnessesIdle

\* bug variant: only the returned flag ends the run, the exit phrase in the
\* response is not looked for
AutoAfterCall_flag_only ==
    /\ pc = "returned"
    /\ caller = "automode"
    /\ ret.kind = "value"
    /\ LET completed == ret.flag
           reported == IF completed THEN Append(auto_reported, "Completed")
                       ELSE auto_reported
           at_max == iteration_count + 1 >= max_iterations
       IN  /\ error_count' = 0
           /\ auto_user_input' = IF completed THEN auto_user_input ELSE CONTINUE_PROMPT
           /\ iteration_count' = iteration_count + 1
           /\ auto_reported' = IF at_max THEN Append(reported, "MaxIterationsReached")
                               ELSE reported
           /\ automode' = IF completed \/ at_max THEN FALSE ELSE automode
    /\ auto_done_at' = IF auto_done_at = 0 /\ (ret.flag \/ ret.response.exit_phrase)
                       THEN auto_calls ELSE auto_done_at
    /\ pc' = "automode_while"
    /\ caller' = "none"
    /\ ret' = NoReturn
    /\ sent' = {}
    /\ auto_ok' = auto_ok + 1
    /\ auto_streak' = 0
    /\ UNCHANGED auto_earlier
    /\ UNCHANGED <<history, max_iterations, auto_calls, turnVars, toolVars>>
    /\ HarnessesIdle

\* lines 114, 124-134: chat_with_claude returned.  auto_done_at records the
\* first call whose result carried a completion signal.
AutoAfterCall ==
    /\ pc = "returned"
    /\ caller = "automode"
    /\ ret.kind = "value"
    /\ LET completed == ret.flag \/ ret.response.exit_phrase
           reported == IF completed THEN Append(auto_reported, "Completed")
                       ELSE auto_reported
           at_max == iteration_count + 1 >= max_iterations
       IN  /\ error_count' = 0
           /\ auto_user_input' = IF completed THEN auto_user_input ELSE CONTINUE_PROMPT
           /\ iteration_count' = iteration_count + 1
           /\ auto_reported' = IF at_max THEN Append(reported, "MaxIterationsReached")
                               ELSE reported
           /\ automode' = IF completed \/ at_max THEN FALSE ELSE automode
    /\ auto_done_at' = IF auto_done_at = 0 /\ (ret.flag \/ ret.response.exit_phrase)
                       THEN auto_calls ELSE auto_done_at
    /\ pc' = "automode_while"
    /\ caller' = "none"
    /\ ret' = NoReturn
    /\ sent' = {}
    /\ auto_ok' = auto_ok + 1
    /\ auto_streak' = 0
    /\ UNCHANGED auto_earlier
    /\ UNCHANGED <<history, max_iterations, auto_calls, turnVars, toolVars>>
    /\ HarnessesIdle

\* bug variant: a call that raised uses up an iteration as well
AutoAfterRaise_advances ==
    /\ pc = "returned"
    /\ caller = "automode"
    /\ ret.kind = "exception"
    /\ error_count' = error_count + 1
    /\ iteration_count' = iteration_count + 1
    /\ IF error_count + 1 >= max_errors
       THEN /\ auto_reported' = Append(auto_reported, "ErrorAborted")
            /\ automode' = FALSE
            /\ pc' = "automode_exit"
       ELSE /\ pc' = "automode_while"
            /\ UNCHANGED <<auto_reported, automode>>
    /\ caller' = "none"
    /\ ret' = NoReturn
    /\ sent' = {}
    /\ UNCHANGED <<history, max_iterations, auto_user_input,
                   auto_calls, auto_done_at, auto_ok, turnVars, toolVars>>
    /\ auto_streak' = auto_streak + 1
    /\ UNCHANGED auto_earlier
    /\ HarnessesIdle

\* bug variant: the run is given up when the count exceeds max_errors
AutoAfterRaise_strict ==
    /\ pc = "returned"
    /\ caller = "automode"
    /\ ret.kind = "exception"
    /\ error_count' = error_count + 1
    /\ IF error_count + 1 > max_errors
       THEN /\ auto_reported' = Append(auto_reported, "ErrorAborted")
            /\ automode' = FALSE
            /\ pc' = "automode_exit"
       ELSE /\ pc' = "automode_while"
            /\ UNCHANGED <<auto_reported, automode>>
    /\ caller' = "none"
    /\ ret' = NoReturn
    /\ sent' = {}
    /\ UNCHANGED <<history, max_iterations, iteration_count, auto_user_input,
                   auto_calls, auto_done_at, auto_ok, turnVars, toolVars>>
    /\ auto_streak' = auto_streak + 1
    /\ UNCHANGED auto_earlier
    /\ HarnessesIdle

\* lines 115-122: chat_with_claude raised
AutoAfterRaise ==
    /\ pc = "returned"
    /\ caller = "automode"
    /\ ret.kind = "exception"
    /\ error_count' = error_count + 1
    /\ IF error_count + 1 >= max_errors
       THEN /\ auto_reported' = Append(auto_reported, "ErrorAborted")
            /\ automode' = FALSE
            /\ pc' = "automode_exit"
       ELSE /\ pc' = "automode_while"
            /\ UNCHANGED <<auto_reported, automode>>
    /\ caller' = "none"
    /\ ret' = NoReturn
    /\ sent' = {}
    /\ UNCHANGED <<history, max_iterations, iteration_count, auto_user_input,
                   auto_calls, auto_done_at, auto_ok, turnVars, toolVars>>
    /\ auto_streak' = auto_streak + 1
    /\ UNCHANGED auto_earlier
    /\ HarnessesIdle

\* bug variant: a cancellation in automode is counted as one more error
Interrupt_as_error ==
    /\ pc \in {"main_model", "tool_loop", "tool_checker"}
    /\ IF caller = "automode"
       THEN /\ auto_reported' = Append(auto_reported, "UserCancelled")
            /\ automode' = FALSE
            /\ history' = Append(history, InterruptedMessage)
            /\ error_count' = error_count + 1
            /\ pc' = "automode_exit"
       ELSE /\ pc' = "exited"
            /\ UNCHANGED <<auto_reported, automode, history, error_count>>
    /\ caller' = "none"
    /\ ret' = NoReturn
    /\ sent' = {}
    /\ TurnCleared
    /\ UNCHANGED <<max_iterations, iteration_count, auto_user_input,
                   auto_calls, auto_done_at, auto_ok, auto_streak, auto_earlier>>
    /\ HarnessesIdle

\* KeyboardInterrupt while chat_with_claude awaits the model or a tool.
\* In automode lines 135-138 handle it; otherwise it leaves run().
Interrupt ==
    /\ pc \in {"main_model", "tool_loop", "tool_checker"}
    /\ IF caller = "automode"
       THEN /\ auto_reported' = Append(auto_reported, "UserCancelled")
            /\ automode' = FALSE
            /\ history' = Append(history, InterruptedMessage)
            /\ pc' = "automode_exit"
       ELSE /\ pc' = "exited"
            /\ UNCHANGED <<auto_reported, automode, history>>
    /\ caller' = "none"
    /\ ret' = NoReturn
    /\ sent' = {}
    /\ TurnCleared
    /\ UNCHANGED <<max_iterations, iteration_count, error_count, auto_user_input,
                   auto_calls, auto_done_at, auto_ok, auto_streak, auto_earlier>>
    /\ HarnessesIdle

\* line 144: handle_automode returns, its frame is gone
AutoExit ==
    /\ pc = "automode_exit"
    /\ pc' = "run"
    /\ max_iterations' = 0
    /\ iteration_count' = 0
    /\ error_count' = 0
    /\ auto_user_input' = ""
    /\ auto_reported' = <<>>
    /\ auto_calls' = 0
    /\ auto_done_at' = 0
    /\ auto_ok' = 0
    /\ auto_streak' = 0
    /\ auto_earlier' = auto_earlier \cup {reason \in EarlyEndings :
                                           \E i \in DOMAIN auto_reported : auto_reported[i] = reason}
    /\ UNCHANGED <<history, caller, ret, sent, automode, turnVars, toolVars>>
    /\ HarnessesIdle

\* The turn as the controller sees it: chat_with_claude, once called,
\* returns (response, flag) or raises.
StubResults ==
    {ReturnValue([pieces |-> {"text"}, exit_phrase |-> p], f) : p \in BOOLEAN, f \in BOOLEAN}
        \cup {RaisedException}

OrchestratorStub(result) ==
    /\ pc = "main_model"
    /\ caller = "automode"
    /\ ret' = result
    /\ sent' = {}
    /\ pc' = "returned"
    /\ TurnCleared
    /\ UNCHANGED <<history, caller, autoVars>>
    /\ HarnessesIdle

----------------------------------------------------------------------------
(* Specifications *)

Init == ProgInit("run") /\ RepairIdle /\ RetryIdle /\ DispatchIdle /\ UnitsIdle

OnDiskChoices == SUBSET {"a.py"}

\* The environment of a tool call, as far as the tool depends on it: the
\* files on disk for the edit tool, and whether the backend (search, file
\* system, code run) succeeds for the tools that use one.
DiskChoices(name) ==
    IF name = "edit_and_apply_multiple" THEN OnDiskChoices ELSE {{}}

BackendChoices(name) ==
    IF name \in {"create_files", "tavily_search", "execute_code"} THEN BOOLEAN ELSE {TRUE}

ToolRuns ==
    UNION {{[name |-> name, input |-> input, on_disk |-> on_disk, backend_ok |-> ok] :
               input \in ToolInputs(name), on_disk \in DiskChoices(name),
               ok \in BackendChoices(name)} : name \in ToolNames}

Next ==
    \/ CmdExit
    \/ \E confirmed \in BOOLEAN : CmdReset(confirmed)
    \/ CmdRegular
    \/ \E readable \in BOOLEAN : CmdImage(readable)
    \/ \E n \in 0 .. MaxProgramIterations : CmdAutomode(n)
    \/ ChatReturnsToRun
    \/ MainModelRaises
    \/ \E text \in MainTexts, n \in 0 .. MaxToolUses : MainModelResponds(text, n)
    \/ \E run \in ToolRuns :
           ToolExecute(run.name, run.input, run.on_disk, run.backend_ok)
    \/ FollowUpRaises
    \/ \E text \in CheckerTexts, on_disk \in OnDiskChoices : FollowUpResponds(text, on_disk)
    \/ ToolLoopEnds
    \/ AutoGoal
    \/ AutoGoalInterrupt
    \/ AutoWhile
    \/ AutoAfterCall
    \/ AutoAfterRaise
    \/ Interrupt
    \/ AutoExit

\* the whole program
Spec == Init /\ [][Next]_vars

AutoNext ==
    \/ \E n \in 0 .. MaxIterations : CmdAutomode(n)
    \/ AutoGoal
    \/ AutoGoalInterrupt
    \/ AutoWhile
    \/ \E result \in StubResults : OrchestratorStub(result)
    \/ AutoAfterCall
    \/ AutoAfterRaise
    \/ Interrupt
    \/ AutoExit

\* the automode controller around a stubbed turn
SpecAuto == Init /\ [][AutoNext]_vars

TurnNext ==
    \/ CmdRegular
    \/ ChatReturnsToRun
    \/ MainModelRaises
    \/ \E text \in MainTexts, n \in 0 .. MaxTurnToolUses : MainModelResponds(text, n)
    \/ \E run \in ToolRuns :
           ToolExecute(run.name, run.input, run.on_disk, run.backend_ok)
    \/ FollowUpRaises
    \/ \E text \in CheckerTexts, on_disk \in OnDiskChoices : FollowUpResponds(text, on_disk)
    \/ ToolLoopEnds

\* line 111: control leaves the loop test, into the call or out of the loop
\* (the steps of AutoWhile, which is enabled whenever control is there)
AutoWhileTaken ==
    /\ pc = "automode_while"
    /\ pc' \in {"main_model", "automode_exit"}

\* the controller when the single thread of control keeps going: the goal
\* is typed or the prompt cancelled, every call of chat_with_claude returns,
\* raises or is cancelled, and every step of handle_automode is taken
SpecAutoLive ==
    /\ Init
    /\ [][AutoNext]_vars
    /\ WF_vars(AutoGoal \/ AutoGoalInterrupt)
    /\ WF_pc(AutoWhileTaken)
    /\ WF_vars(\E result \in StubResults : OrchestratorStub(result))
    /\ WF_vars(AutoAfterCall)
    /\ WF_vars(AutoAfterRaise)
    /\ WF_vars(AutoExit)

AutoRunsNext ==
    \/ AutoNext
    \/ \E n \in 0 .. MaxRunIterations : CmdAutomodeAgain(n)

\* the controller around a stubbed turn, over several runs of one session
SpecAutoRuns == Init /\ [][AutoRunsNext]_vars

AutoDownNext ==
    \/ \E n \in 0 .. MaxIterations : CmdAutomode(n)
    \/ \E n \in 0 .. MaxRunIterations : CmdAutomodeAgain(n)
    \/ AutoGoal
    \/ AutoGoalInterrupt
    \/ AutoWhile
    \/ MainModelRaises
    \/ AutoAfterCall
    \/ Interrupt
    \/ AutoExit

\* automode over a model backend that fails on every call: every main
\* dispatch takes lines 196-200, so no tool call is reached, and tool calls
\* are the only place chat_with_claude raises from (the except branch of
\* line 115 has nothing to catch)
SpecAutoDown == Init /\ [][AutoDownNext]_vars

\* regular chat turns alone, with longer tool loops
SpecTurn == Init /\ [][TurnNext]_vars

----------------------------------------------------------------------------
(* Harness for the stores: turns as far as they write to the stores        *)
(* (history, token usage, file contents), and the reset command.           *)

SessionTools == {"read_multiple_files", "create_files", "execute_code"}

SessionFiles == {"a.py"}

SessionContents == {"v1", "v2"}

TokenCounts == 1 .. MaxSessionTokens

Stores ==
    [history |-> ss_history, conv_files |-> ss_conv_files,
     token_usage |-> ss_token_usage, file_contents |-> ss_file_contents,
     code_editor |-> ss_code_editor]

SessionInit ==
    /\ ProgInit("harness")
    /\ RepairIdle
    /\ RetryIdle
    /\ DispatchIdle
    /\ ExecutorIdle
    /\ FilterIdle
    /\ ExportIdle
    /\ ss_pc = "run"
    /\ StoresEmpty

\* chat_with_claude, lines 180-200: the user message goes to the history;
\* the usage of a main call that returned goes to the ledger
SessionChat(main_ok, input_tokens, output_tokens) ==
    /\ ss_pc = "run"
    /\ Len(ss_history) < MaxSessionMessages
    /\ ss_history' = Append(ss_history, UserMessage(USER_TEXT))
    /\ IF main_ok
       THEN /\ ss_token_usage' = update_token_usage(ss_token_usage, "main_model",
                                                    input_tokens, output_tokens)
            /\ ss_pc' = "tools"
       ELSE UNCHANGED <<ss_token_usage, ss_pc>>
    /\ UNCHANGED <<ss_conv_files, ss_file_contents, ss_code_editor, ss_reset>>
    /\ UNCHANGED <<progVars, repVars, rtVars, tdVars, execVars, filterVars, exportVars>>

\* chat_with_claude, lines 226-298: a file tool that read or wrote a file
\* stores its content under the full path; after the tool call its input is
\* stored under the tool's name; the usage of a follow-up call that returned
\* goes to the ledger
SessionToolCall(name, path, content, done, follow_up_ok, input_tokens, output_tokens) ==
    /\ ss_pc = "tools"
    /\ ss_file_contents' =
           FileOperations_update_file_contents(
               FileOperations_tool_writes(ss_file_contents, name, path, content, done),
               name, ToolInput(TRUE, <<>>))
    /\ ss_token_usage' = IF follow_up_ok
                         THEN update_token_usage(ss_token_usage, "tool_checker",
                                                 input_tokens, output_tokens)
                         ELSE ss_token_usage
    /\ ss_pc' = "run"
    /\ UNCHANGED <<ss_history, ss_conv_files, ss_code_editor, ss_reset>>
    /\ UNCHANGED <<progVars, repVars, rtVars, tdVars, execVars, filterVars, exportVars>>

\* chat_with_claude, lines 218, 300-308: the response asked for no tool
SessionTurnEnds ==
    /\ ss_pc = "tools"
    /\ ss_pc' = "run"
    /\ UNCHANGED <<ss_history, ss_conv_files, ss_token_usage, ss_file_contents,
                   ss_code_editor, ss_reset>>
    /\ UNCHANGED <<progVars, repVars, rtVars, tdVars, execVars, filterVars, exportVars>>

\* run, lines 46-50, and reset_conversation: an exception of
\* reset_conversation is caught nowhere and leaves run()
SessionReset(confirmed) ==
    /\ ss_pc = "run"
    /\ IF confirmed
       THEN LET after == reset_conversation(Stores)
            IN  /\ ss_history' = after.stores.history
                /\ ss_conv_files' = after.stores.conv_files
                /\ ss_token_usage' = after.stores.token_usage
                /\ ss_file_contents' = after.stores.file_contents
                /\ ss_code_editor' = after.stores.code_editor
                /\ ss_reset' = TRUE
                /\ ss_pc' = IF after.raised THEN "exited" ELSE "run"
       ELSE UNCHANGED sessVars
    /\ UNCHANGED <<progVars, repVars, rtVars, tdVars, execVars, filterVars, exportVars>>

SessionNext ==
    \/ \E main_ok \in BOOLEAN, i \in TokenCounts, o \in TokenCounts : SessionChat(main_ok, i, o)
    \/ \E name \in SessionTools, path \in SessionFiles, content \in SessionContents,
          done \in BOOLEAN, ok \in BOOLEAN, i \in TokenCounts, o \in TokenCounts :
           SessionToolCall(name, path, content, done, ok, i, o)
    \/ SessionTurnEnds
    \/ \E confirmed \in BOOLEAN : SessionReset(confirmed)

SpecSession == SessionInit /\ [][SessionNext]_vars

----------------------------------------------------------------------------

(* Harness for CodeExecutor: runs of execute_code with each outcome, calls *)
(* of stop_process with any id, and processes that end on their own.       *)

ExecutorInit ==
    /\ ProgInit("harness")
    /\ RepairIdle
    /\ RetryIdle
    /\ DispatchIdle
    /\ SessionIdle
    /\ FilterIdle
    /\ ExportIdle
    /\ ex_pc = "ready"
    /\ ExecutorEmpty

\* the pid of the next process spawned
NextPid == Cardinality(ex_spawned) + 1

\* execute_tool line 315 -> execute_code
ExecuteCode(outcome) ==
    /\ ex_pc = "ready"
    /\ outcome # "spawn_fails" => Cardinality(ex_spawned) < MaxProcesses
    /\ LET pid == NextPid
           after == execute_code(running_processes, ex_alive, pid, outcome)
       IN  /\ running_processes' = after.running_processes
           /\ ex_alive' = after.alive
           /\ ex_result' = after.result
           /\ ex_spawned' = IF outcome = "spawn_fails" THEN ex_spawned
                            ELSE ex_spawned \cup {pid}
           /\ ex_completed' = IF outcome = "completes" THEN ex_completed \cup {pid}
                              ELSE ex_completed
           /\ ex_timed_out' = IF outcome = "times_out" THEN ex_timed_out \cup {pid}
                              ELSE ex_timed_out
           /\ ex_last' = [op |-> "execute_code",
                          pid |-> IF outcome = "spawn_fails" THEN NoPid ELSE pid,
                          outcome |-> outcome, was_alive |-> FALSE]
    /\ UNCHANGED <<ex_pc, ex_terminated>>
    /\ UNCHANGED <<progVars, repVars, rtVars, tdVars, sessVars, filterVars, exportVars>>

\* execute_tool line 319 -> stop_process.  ends: the process ends on the
\* signals sent (it may ignore SIGTERM, not SIGKILL).
StopProcess(process_id, wait, ends) ==
    /\ ex_pc = "ready"
    /\ LET after == stop_process(running_processes, process_id,
                                 process_id \in ex_alive, wait)
           ended == /\ process_id \in ex_alive
                    /\ \/ "SIGKILL" \in after.signals
                       \/ "SIGTERM" \in after.signals /\ ends
       IN  /\ running_processes' = after.running_processes
           /\ ex_result' = after.result
           /\ ex_alive' = IF ended THEN ex_alive \ {process_id} ELSE ex_alive
           /\ ex_terminated' = IF ended THEN ex_terminated \cup {process_id}
                               ELSE ex_terminated
           /\ ex_last' = [op |-> "stop_process", pid |-> process_id, outcome |-> wait,
                          was_alive |-> process_id \in ex_alive]
    /\ UNCHANGED <<ex_pc, ex_spawned, ex_completed, ex_timed_out>>
    /\ UNCHANGED <<progVars, repVars, rtVars, tdVars, sessVars, filterVars, exportVars>>

\* a process that outlived the wait of line 58 ends on its own
ProcessExits(pid) ==
    /\ ex_pc = "ready"
    /\ pid \in ex_alive
    /\ ex_alive' = ex_alive \ {pid}
    /\ ex_completed' = ex_completed \cup {pid}
    /\ ex_last' = [op |-> "process_exits", pid |-> pid, outcome |-> "",
                   was_alive |-> TRUE]
    /\ UNCHANGED <<ex_pc, running_processes, ex_spawned, ex_timed_out, ex_terminated,
                   ex_result>>
    /\ UNCHANGED <<progVars, repVars, rtVars, tdVars, sessVars, filterVars, exportVars>>

ExecutorNext ==
    \/ \E outcome \in ExecuteOutcomes : ExecuteCode(outcome)
    \/ \E process_id \in 1 .. MaxProcesses, wait \in ProcessWaitOutcomes, ends \in BOOLEAN :
           StopProcess(process_id, wait, ends)
    \/ \E pid \in 1 .. MaxProcesses : ProcessExits(pid)

SpecExecutor == ExecutorInit /\ [][ExecutorNext]_vars

----------------------------------------------------------------------------

(* Harness for filter_history: any bounded history of plain messages and   *)
(* of block lists.  A tool_result block is built as chat_with_claude       *)
(* builds it (type, tool_use_id, content, is_error: no 'output' key, so    *)
(* .get('output', '') gives ''); text is the text of its content.  One     *)
(* block carries the marker under an 'output' key as well.                 *)

FilterBlock(type, text, output) == [type |-> type, id |-> "", output |-> output, text |-> text]

FilterMarker == "File contents updated in system prompt"

FilterBlocks ==
    {FilterBlock("text", "hello", ""), FilterBlock("tool_use", "", "")}
        \cup {FilterBlock("tool_result", text, "") : text \in {"2 files listed"} \cup FilterKeywords}
        \cup {FilterBlock("tool_result", FilterMarker, FilterMarker)}

FilterMessages ==
    {Message(r, StrContent("hello")) : r \in Roles}
        \cup {Message(r, ListContent(blocks)) :
                  r \in Roles, blocks \in SeqsUpTo(FilterBlocks, MaxFilterBlocks) \ {<<>>}}

FilterInit ==
    /\ ProgInit("harness")
    /\ RepairIdle
    /\ RetryIdle
    /\ DispatchIdle
    /\ SessionIdle
    /\ ExecutorIdle
    /\ ExportIdle
    /\ fh_pc = "input"
    /\ fh_history \in SeqsUpTo(FilterMessages, MaxFilterMessages)
    /\ fh_filtered = <<>>

FilterHistory ==
    /\ fh_pc = "input"
    /\ fh_filtered' = filter_history(fh_history, 1)
    /\ fh_pc' = "filtered"
    /\ UNCHANGED fh_history
    /\ UNCHANGED <<progVars, repVars, rtVars, tdVars, sessVars, execVars, exportVars>>

FilterNext == FilterHistory

SpecFilter == FilterInit /\ [][FilterNext]_vars

----------------------------------------------------------------------------

(* Harness for save_to_file: two text messages and one tracked file, their *)
(* bodies and content any bounded list of lines: ordinary lines, empty     *)
(* lines, and lines that read like the export's own markup.                *)

BodyLines == {"hello", "", "## Assistant"}

ContentLines == {"x = 1", "", FENCE}

\* a text of 1 .. MaxExportLines lines
ExportTexts(alphabet) == SeqsUpTo(alphabet, MaxExportLines) \ {<<>>}

ExportMessages ==
    {Message(r, [kind |-> "str", text |-> body, blocks |-> <<>>]) :
         r \in Roles, body \in ExportTexts(BodyLines)}

ExportInit ==
    /\ ProgInit("harness")
    /\ RepairIdle
    /\ RetryIdle
    /\ DispatchIdle
    /\ SessionIdle
    /\ ExecutorIdle
    /\ FilterIdle
    /\ sv_pc = "input"
    /\ sv_history \in {<<m1, m2>> : m1 \in ExportMessages, m2 \in ExportMessages}
    /\ sv_file_contents \in {<<[path |-> "a.py", content |-> c]>> : c \in ExportTexts(ContentLines)}
    /\ sv_artifact = <<>>
    /\ sv_reread = NoReread

\* save chat (run, lines 52-54), and the artifact read back
SaveChat ==
    /\ sv_pc = "input"
    /\ sv_artifact' = save_to_file(sv_history, sv_file_contents)
    /\ sv_reread' = read_artifact(save_to_file(sv_history, sv_file_contents))
    /\ sv_pc' = "saved"
    /\ UNCHANGED <<sv_history, sv_file_contents>>
    /\ UNCHANGED <<progVars, repVars, rtVars, tdVars, sessVars, execVars, filterVars>>

ExportNext == SaveChat

SpecExport == ExportInit /\ [][ExportNext]_vars

----------------------------------------------------------------------------

(* Properties of the repair routine *)

Alternates(list) == \A i \in 1 .. Len(list) - 1 : list[i].role # list[i + 1].role

\* C1: for every message list given to ensure_alternating_roles (either
\* copy), no two adjacent messages of the output have the same role.
C1_OutputAlternates ==
    rep_pc \in {"once", "twice"} => Alternates(rep_cm) /\ Alternates(rep_cc)

\* the routine has run on a list with a repeated user and a repeated assistant
C1_Witness ==
    /\ rep_pc = "once"
    /\ \E i \in 1 .. Len(rep_input) - 1 :
           rep_input[i].role = "user" /\ rep_input[i + 1].role = "user"
    /\ \E i \in 1 .. Len(rep_input) - 1 :
           rep_input[i].role = "assistant" /\ rep_input[i + 1].role = "assistant"
    /\ Alternates(rep_cc)

\* out is inp with placeholder messages inserted and nothing else changed
RECURSIVE IsInsertionOf(_, _, _, _)
IsInsertionOf(out, j, inp, i) ==
    IF j > Len(out) THEN i > Len(inp)
    ELSE IF i <= Len(inp) /\ out[j] = inp[i] THEN IsInsertionOf(out, j + 1, inp, i + 1)
    ELSE IF out[j] = PlaceholderMessage THEN IsInsertionOf(out, j + 1, inp, i)
    ELSE FALSE

\* C2 (as stated): the output contains every input message in order and
\* differs from the input only by inserted placeholders; nothing is deleted.
C2_NothingDeleted ==
    rep_pc \in {"once", "twice"} =>
        /\ IsInsertionOf(rep_cm, 1, rep_input, 1)
        /\ IsInsertionOf(rep_cc, 1, rep_input, 1)

\* the input without the assistant messages that directly follow an
\* assistant message
RECURSIVE CollapseAssistants(_, _)
CollapseAssistants(inp, i) ==
    IF i > Len(inp) THEN <<>>
    ELSE IF i > 1 /\ inp[i].role = "assistant" /\ inp[i - 1].role = "assistant"
    THEN CollapseAssistants(inp, i + 1)
    ELSE <<inp[i]>> \o CollapseAssistants(inp, i + 1)

RepeatedUsers(inp) ==
    Cardinality({i \in 2 .. Len(inp) : inp[i].role = "user" /\ inp[i - 1].role = "user"})

RepairedAsDesigned(out, inp) ==
    /\ IsInsertionOf(out, 1, CollapseAssistants(inp, 1), 1)
    /\ Len(out) = Len(CollapseAssistants(inp, 1)) + RepeatedUsers(inp)

\* C2 (amended): every user message, and every assistant message that does
\* not directly follow another assistant message, is kept in order; the
\* output differs from that only by one inserted placeholder per user
\* message that directly follows a user message.
C2_OnlyRepeatedAssistantsDeleted ==
    rep_pc \in {"once", "twice"} =>
        /\ RepairedAsDesigned(rep_cm, rep_input)
        /\ RepairedAsDesigned(rep_cc, rep_input)

\* a list where a real assistant message was dropped and a placeholder inserted
C2_Witness ==
    /\ rep_pc = "once"
    /\ Len(CollapseAssistants(rep_input, 1)) < Len(rep_input)
    /\ RepeatedUsers(rep_input) > 0
    /\ RepairedAsDesigned(rep_cc, rep_input)

\* C3: the repair is idempotent, repair(repair(m)) = repair(m), and the
\* double application of the main dispatch (ChatManager's repair, then
\* ClaudeClient's inside generate_response) sends what one application gives.
C3_Idempotent ==
    rep_pc = "twice" =>
        /\ rep_twice = rep_cm
        /\ ClaudeClient_ensure_alternating_roles(rep_cc) = rep_cc
        /\ ChatManager_ensure_alternating_roles(rep_cm) = rep_cm

\* the second application ran on a list the first application had changed
C3_Witness ==
    /\ rep_pc = "twice"
    /\ rep_cm # rep_input
    /\ Len(rep_cm) > Len(rep_input)
    /\ rep_twice = rep_cm

----------------------------------------------------------------------------
(* Properties of the dispatches to the model *)

\* C4: in every reachable state, every message list handed to the model
\* backend (main dispatch, per-tool follow-up, edit-instruction generation,
\* execution analysis) strictly alternates user / assistant roles.
C4_SentAlternates == \A list \in sent : Alternates(list)

\* a follow-up dispatch after execute_code: the execution analysis was sent,
\* and the follow-up list was sent with a placeholder the repair put in
C4_Witness ==
    /\ pc = "tool_checker"
    /\ tool_name = "execute_code"
    /\ AnalysisMessages \in sent
    /\ ~Alternates(messages)
    /\ \E list \in sent : Len(list) > Len(messages) /\ Alternates(list)

----------------------------------------------------------------------------
(* Properties of automode *)

\* the run was not cancelled by the user
NotCancelled == \A i \in 1 .. Len(auto_reported) : auto_reported[i] # "UserCancelled"

Reported(reason) == \E i \in 1 .. Len(auto_reported) : auto_reported[i] = reason

\* C5: when every call of chat_with_claude raises (no call has returned:
\* iteration_count = 0) and max_iterations >= 1, the controller never makes
\* a fourth call, and an uncancelled run ends after exactly 3 calls with the
\* consecutive-errors outcome as its only report.
C5_ThreeFailuresAbort ==
    (pc \in {"automode_while", "main_model", "returned", "automode_exit"}
         /\ max_iterations >= 1 /\ iteration_count = 0)
        => /\ auto_calls <= 3
           /\ (pc = "automode_exit" /\ NotCancelled)
                  => (auto_calls = 3 /\ auto_reported = <<"ErrorAborted">>)

\* a run of 3 allowed iterations has ended after three raising calls
C5_Witness ==
    /\ pc = "automode_exit"
    /\ max_iterations = 3
    /\ iteration_count = 0
    /\ auto_calls = 3
    /\ auto_reported = <<"ErrorAborted">>

\* C6: once a call k returns with the completion flag or with the exit
\* phrase in its response, no further call is made, the completed outcome
\* is reported, and for k < max_iterations it is the only report.
C6_CompletionStops ==
    auto_done_at # 0
        => /\ auto_calls = auto_done_at
           /\ ~automode
           /\ pc \in {"automode_while", "automode_exit"}
           /\ Reported("Completed")
           /\ ~Reported("ErrorAborted") /\ NotCancelled
           /\ iteration_count < max_iterations => auto_reported = <<"Completed">>

\* the second call carried the signal, after a first call that returned
\* without one; the run ended there with one allowed iteration unused
C6_Witness ==
    /\ pc = "automode_exit"
    /\ max_iterations = 3
    /\ auto_done_at = 2
    /\ iteration_count = 2
    /\ auto_calls = 2
    /\ auto_reported = <<"Completed">>

\* C7 (as stated): every automode run ends with exactly one reported reason.
C7_ExactlyOneReason == pc = "automode_exit" => Len(auto_reported) = 1

----------------------------------------------------------------------------
(* Properties of the retry decision *)

SomeIsError(edit_results) ==
    \E i \in 1 .. Len(edit_results.items) : edit_results.items[i].is_error = "true"

NoRetryPhrase(commentary) == \A phrase \in RetryPhrases : ~In(phrase, Lower(commentary))

\* C8 (as stated): for an edit-result list with at least one entry whose
\* is_error is true, decide_retry returns, and returns retry = true,
\* whatever the commentary.
C8_ErrorAlwaysRetries ==
    (rt_pc = "decided" /\ rt_results.type = "list" /\ SomeIsError(rt_results))
        => (rt_decision.raised = "" /\ rt_decision.retry)

\* the follow-up of an edit_and_apply_multiple call has been answered
EditFollowUpDone ==
    /\ pc = "tool_loop"
    /\ tool_name = "edit_and_apply_multiple"
    /\ retry_decision # NoDecision

\* C9: when the edit result is a list with no entry whose is_error is true
\* and the commentary has none of the retry phrases in any letter case,
\* decide_retry returns retry = false with no files to retry, and the edit
\* tool has run once for the tool call (no retry edit).
C9_NoErrorNoPhraseNoRetry ==
    (EditFollowUpDone /\ tool_result.type = "list" /\ ~SomeIsError(tool_result)
         /\ NoRetryPhrase(tool_checker_response))
        => (retry_decision = Returned(FALSE, {}) /\ edit_calls = 1)

\* an edit round with one per-file result and the commentary "Done."
C9_Witness ==
    /\ EditFollowUpDone
    /\ tool_result.type = "list"
    /\ Len(tool_result.items) = 1
    /\ tool_checker_response = <<"Done.">>
    /\ retry_decision = Returned(FALSE, {})
    /\ edit_calls = 1

\* C10 (as stated): when edit_and_apply_multiple reports a failure for a
\* file (a per-file result with status "error") and the commentary has no
\* retry phrase, the retry decision is to retry and the edit is run again.
C10_FailedEditRetries ==
    (EditFollowUpDone /\ tool_result.type = "list"
         /\ (\E i \in 1 .. Len(tool_result.items) : tool_result.items[i].status = "error")
         /\ NoRetryPhrase(tool_checker_response))
        => (retry_decision.raised = "" /\ retry_decision.retry /\ edit_calls = 2)

----------------------------------------------------------------------------
(* Properties of the tool dispatch *)

\* C11: dispatching a name no branch handles returns the envelope
\* {is_error: true, content: "Unknown tool: <name>"} and does not raise, so
\* the turn goes on to the tool result and the follow-up of that call.
C11_UnknownToolEnvelope ==
    (td_pc = "done" /\ td_run.name \notin RegisteredTools)
        => td_outcome = Outcome(FALSE, UnknownToolEnvelope(td_run.name), {})

\* a name that is not declared at all has been dispatched
C11_Witness ==
    /\ td_pc = "done"
    /\ td_run.name = "undeclared_tool"
    /\ ~td_outcome.raised
    /\ td_outcome.result.is_error
    /\ td_outcome.result.content = <<"Unknown tool: ", "undeclared_tool">>

\* C12 (as stated): for every tool name, the special-cased create_files and
\* tavily_search included, a failure of the handler comes back as a result
\* and never as an exception of the dispatch.
C12_NoToolRaises == td_pc = "done" => ~td_outcome.raised

\* C13 (as stated): for every declared tool, an input that lacks a required
\* field gives an error envelope with is_error = true, and no exception.
C13_MissingFieldEnvelope ==
    (td_pc = "done" /\ td_run.name \in DeclaredTools /\ ~td_run.input.valid)
        => /\ ~td_outcome.raised
           /\ td_outcome.result.type = "dict"
           /\ td_outcome.result.is_error

\* the entry of files[i] in the result of the edit tool is the rejection
RejectedEntry(result, files, i) ==
    /\ result.type = "list"
    /\ i <= Len(result.items)
    /\ result.items[i].path = files[i].path
    /\ result.items[i].status = "error"
    /\ result.items[i].message = "File is not within the _generations directory"

\* C14 (as stated): in the edit tool a path resolving outside the sandbox
\* root (absolute or with ..) never reaches open(), its rejection is that
\* file's own entry, and every file of the call has an entry.
C14_OutsideRejectedBeforeRead ==
    (td_pc = "done" /\ td_run.name = "edit_and_apply_multiple" /\ td_run.input.valid
         /\ \A i \in 1 .. Len(td_run.input.files) :
                td_run.input.files[i].path # NoKey /\ td_run.input.files[i].instructions)
        => /\ \A p \in td_touched : ~OutsideSandbox(p)
           /\ Len(td_outcome.result.items) = Len(td_run.input.files)
           /\ \A i \in 1 .. Len(td_run.input.files) :
                  OutsideSandbox(td_run.input.files[i].path)
                      => RejectedEntry(td_outcome.result, td_run.input.files, i)

\* C15 (as stated): no file tool hands the file system a path that resolves
\* outside the sandbox root.
C15_FileToolsStayInside ==
    (td_pc = "done"
         /\ td_run.name \in PathTools \cup {"edit_and_apply_multiple"})
        => \A p \in td_touched : ~OutsideSandbox(p)

----------------------------------------------------------------------------
(* Properties of the tool loop of a turn *)

HasBlock(message, type) ==
    /\ message.content.kind = "list"
    /\ Len(message.content.blocks) = 1
    /\ message.content.blocks[1].type = type

BlockId(message) == message.content.blocks[1].id

\* every tool_use message is directly followed by a tool_result message of
\* the same id, every tool_result directly follows such a tool_use, and no
\* id has two results
PairsMatched(list) ==
    /\ \A i \in 1 .. Len(list) :
           HasBlock(list[i], "tool_use")
               => /\ i < Len(list)
                  /\ list[i].role = "assistant"
                  /\ list[i + 1].role = "user"
                  /\ HasBlock(list[i + 1], "tool_result")
                  /\ BlockId(list[i + 1]) = BlockId(list[i])
    /\ \A i \in 1 .. Len(list) :
           HasBlock(list[i], "tool_result")
               => /\ i > 1
                  /\ HasBlock(list[i - 1], "tool_use")
                  /\ BlockId(list[i - 1]) = BlockId(list[i])
    /\ \A i, j \in 1 .. Len(list) :
           (HasBlock(list[i], "tool_result") /\ HasBlock(list[j], "tool_result")
                /\ BlockId(list[i]) = BlockId(list[j])) => i = j

\* C16: in every state the turn buffer, and every list dispatched to the
\* model, has each tool_use directly followed by exactly one tool_result of
\* the same id, and no tool_result without its tool_use.
C16_ToolPairsMatched ==
    /\ PairsMatched(current_conversation)
    /\ \A list \in sent : PairsMatched(list)

\* the follow-up of the second tool call of a response is being dispatched
C16_Witness ==
    /\ pc = "tool_checker"
    /\ tool_index = 2
    /\ Len(current_conversation) = 5
    /\ HasBlock(current_conversation[4], "tool_use")
    /\ HasBlock(current_conversation[5], "tool_result")
    /\ \E list \in sent : Len(list) > Len(current_conversation) /\ PairsMatched(list)

\* the ids of the tool_use messages of a list, in order
RECURSIVE ToolUseIds(_, _)
ToolUseIds(list, i) ==
    IF i > Len(list) THEN <<>>
    ELSE (IF HasBlock(list[i], "tool_use") THEN <<BlockId(list[i])>> ELSE <<>>)
             \o ToolUseIds(list, i + 1)

\* C17: the tool calls executed so far in a turn are the first k blocks of
\* the response, in the order emitted; the k-th is the only one that can
\* have its follow-up pending, and block k+1 has not been executed while it
\* is pending.
C17_SequentialInOrder ==
    pc \in {"tool_loop", "tool_checker"}
        => LET k == IF pc = "tool_checker" THEN tool_index ELSE tool_index - 1
           IN  /\ k <= Len(tool_uses)
               /\ ToolUseIds(current_conversation, 1) = [i \in 1 .. k |-> tool_uses[i]]

\* the second tool call runs after the follow-up of the first was answered
C17_Witness ==
    /\ pc = "tool_checker"
    /\ tool_index = 2
    /\ Len(tool_uses) = 2
    /\ "tool_checker" \in assistant_response.pieces
    /\ ToolUseIds(current_conversation, 1) = <<1, 2>>

\* the error message of line 197 returned with False
MainErrorReturn == ReturnValue([pieces |-> {"error"}, exit_phrase |-> FALSE], FALSE)

\* C18: when the main model call raises, chat_with_claude returns
\* (error text, False) instead of raising; no tool had been executed in the
\* turn and no follow-up is dispatched.
C18_MainFailureReturns ==
    [][(pc = "main_model" /\ pc' = "returned")
           => /\ ret' = MainErrorReturn
              /\ sent' = {}
              /\ tool_uses = <<>>
              /\ tool_name = ""
              /\ edit_calls = 0
              /\ Len(current_conversation) = 1]_vars

\* a regular turn has returned the error text of a failed main call
C18_Witness ==
    /\ pc = "returned"
    /\ caller = "regular"
    /\ ret = MainErrorReturn
    /\ history = <<UserMessage(USER_TEXT)>>

\* C19: when the follow-up call of a tool call raises (the step leaves the
\* follow-up wait with no commentary and is not a user interrupt), the error
\* text is appended, nothing is returned or raised, the tool_use /
\* tool_result pair stays in the buffer and the loop goes on at the next
\* tool call.
C19_FollowUpFailureGoesOn ==
    [][(pc = "tool_checker" /\ pc' \notin {"tool_checker", "exited", "automode_exit"}
            /\ tool_checker_response' = <<>>)
           => /\ pc' = "tool_loop"
              /\ tool_index' = tool_index + 1
              /\ "error" \in assistant_response'.pieces
              /\ ret' = NoReturn
              /\ current_conversation' = current_conversation
              /\ tool_uses' = tool_uses]_vars

\* the second tool call was executed, with its own pair and follow-up
\* dispatch, after the follow-up of the first had raised
C19_Witness ==
    /\ pc = "tool_checker"
    /\ tool_index = 2
    /\ "error" \in assistant_response.pieces
    /\ "tool_checker" \notin assistant_response.pieces
    /\ ToolUseIds(current_conversation, 1) = <<1, 2>>
    /\ sent # {}

\* C20 (as stated): when a turn returns a response that has model text, the
\* history ends with that reply as an assistant message.
C20_ReplyInHistory ==
    (pc = "returned" /\ ret.kind = "value" /\ "text" \in ret.response.pieces)
        => /\ history # <<>>
           /\ history[Len(history)].role = "assistant"

----------------------------------------------------------------------------
(* Properties of automode: cancellation, counters, termination, the flag   *)

\* the step reports a cancellation of the current run
CancelStep ==
    /\ Len(auto_reported') = Len(auto_reported) + 1
    /\ auto_reported'[Len(auto_reported')] = "UserCancelled"

\* C22: a cancellation of automode, at the goal prompt or while a call of
\* chat_with_claude is awaited, leaves the error counter as it was, appends
\* exactly one assistant acknowledgment to the history, clears the mode flag
\* and goes to the return of handle_automode, from where the only step is
\* back to the command loop.
C22_CancellationIsNoError ==
    [][/\ CancelStep => /\ error_count' = error_count
                        /\ history' = Append(history, InterruptedMessage)
                        /\ InterruptedMessage.role = "assistant"
                        /\ automode' = FALSE
                        /\ pc' = "automode_exit"
       /\ pc = "automode_exit" => pc' = "run"]_vars

\* a run cancelled during its second call, after a first call that raised
C22_Witness ==
    /\ pc = "automode_exit"
    /\ auto_reported = <<"UserCancelled">>
    /\ auto_calls = 2
    /\ error_count = 1
    /\ ~automode
    /\ Len(history) >= 1
    /\ history[Len(history)] = InterruptedMessage

\* the loop of lines 111-134 is running: between its first test and its exit
AutoLoopRunning ==
    \/ pc = "automode_while"
    \/ pc \in {"main_model", "tool_loop", "tool_checker", "returned"} /\ caller = "automode"

\* C27: the error counter equals the number of calls that raised since the
\* last call that returned (0 after every returning call, one more after
\* every raising call), the run has reported the consecutive-errors outcome
\* exactly when three calls in a row raised, and while the loop runs the
\* counter is below 3.
C27_ConsecutiveErrorCounter ==
    /\ error_count = auto_streak
    /\ Reported("ErrorAborted") <=> auto_streak = max_errors
    /\ AutoLoopRunning => error_count < max_errors

\* a run given up after raise, raise, return, raise, raise, raise
C27_Witness ==
    /\ pc = "automode_exit"
    /\ auto_reported = <<"ErrorAborted">>
    /\ auto_ok = 1
    /\ auto_calls = 6
    /\ error_count = 3

\* C28: iteration_count never exceeds max_iterations, it equals the number
\* of calls of the run that returned (so at most max_iterations calls
\* return), and a call that raised leaves it and the pending prompt as they
\* were.
C28_IterationsBounded ==
    /\ [](iteration_count <= max_iterations /\ iteration_count = auto_ok
              /\ auto_ok <= max_iterations)
    /\ [][(pc = "returned" /\ caller = "automode" /\ ret.kind = "exception")
              => (iteration_count' = iteration_count
                      /\ auto_user_input' = auto_user_input)]_vars

\* a run of 3 allowed iterations that used them all, two calls having raised
\* after the continuation prompt was set
C28_Witness ==
    /\ pc = "automode_exit"
    /\ max_iterations = 3
    /\ iteration_count = 3
    /\ auto_calls = 5
    /\ auto_reported = <<"MaxIterationsReached">>

\* C29: a run makes at most 3 * max_iterations calls of chat_with_claude,
\* and once entered it comes back to the command loop.
C29_RunTerminates ==
    /\ [](auto_calls <= max_errors * max_iterations)
    /\ (pc = "automode_goal") ~> (pc = "run")

\* a run of 3 allowed iterations that made 9 calls: each returning call came
\* after two raising ones
C29_Witness ==
    /\ pc = "automode_exit"
    /\ max_iterations = 3
    /\ auto_calls = 9
    /\ auto_ok = 3

\* C30 (as stated): whenever control is in the command loop, the automode
\* flag is false.
C30_FlagFalseOnReturn == pc = "run" => ~automode

----------------------------------------------------------------------------
(* Properties of the reset *)

\* C21 (as stated): after a confirmed reset, whether it returned or failed,
\* the history is empty, every counter of the token ledger is zero, the
\* file contents are empty and the code-editor memory is empty.
C21_ResetClearsAllStores ==
    ss_reset => /\ ss_history = <<>>
                /\ ss_token_usage = ZeroUsage
                /\ ss_file_contents = EmptyDict
                /\ ss_conv_files = EmptyDict
                /\ ss_code_editor = EmptyCodeEditor

----------------------------------------------------------------------------
(* Properties of the code executor *)

\* C23: a run of execute_code that exceeds the wait returns the timeout
\* report with the pid of the process and no error, leaves the process
\* running and in the table; a timed-out process stays in the table while
\* it runs, and a later stop_process with its id finds it there.
C23_TimeoutKeepsProcessTracked ==
    /\ (ex_last.op = "execute_code" /\ ex_last.outcome = "times_out")
           => /\ ex_result = TimeoutReport(ex_last.pid)
              /\ ex_result.process_id # NoPid
              /\ ex_result.error = "None"
              /\ ex_last.pid \in ex_alive
              /\ ex_last.pid \in running_processes
    /\ \A pid \in ex_timed_out \cap ex_alive : pid \in running_processes
    /\ (ex_last.op = "stop_process" /\ ex_last.pid \in ex_timed_out /\ ex_last.was_alive)
           => ex_result.message # "not found or already terminated"

\* stop_process was called with the id of a timed-out process that was still
\* running, after a second process had been spawned, and found it
C23_Witness ==
    /\ ex_last.op = "stop_process"
    /\ ex_last.pid = 1
    /\ 1 \in ex_timed_out
    /\ ex_last.was_alive
    /\ Cardinality(ex_spawned) = 2
    /\ ex_result.message # "not found or already terminated"

\* C24 (as stated): the table holds exactly the spawned processes that have
\* neither completed nor been terminated, and stop_process with an id that
\* is not in the table changes nothing and reports it.
C24_TableIsLiveProcesses ==
    /\ running_processes = ex_spawned \ (ex_completed \cup ex_terminated)
    /\ (ex_last.op = "stop_process" /\ ex_last.pid \notin ex_spawned)
           => ex_result = StopResult(FALSE, "not found or already terminated")

----------------------------------------------------------------------------
(* Properties of filter_history *)

\* the text of the block contains one of the three markers
HasMarker(block) == block.type = "tool_result" /\ block.text \in FilterKeywords

KeptBlock(block) == ~HasMarker(block)

\* the history without the tool-result blocks whose text has a marker, and
\* without the messages that lose every block
RECURSIVE WithoutMarked(_, _)
WithoutMarked(h, i) ==
    IF i > Len(h) THEN <<>>
    ELSE IF h[i].content.kind # "list" THEN <<h[i]>> \o WithoutMarked(h, i + 1)
    ELSE LET kept == SelectSeq(h[i].content.blocks, KeptBlock)
         IN  IF kept = <<>> THEN WithoutMarked(h, i + 1)
             ELSE <<Message(h[i].role, ListContent(kept))>> \o WithoutMarked(h, i + 1)

\* C25 (as stated): filter_history returns the history with every
\* tool-result block whose text contains a marker removed, every other
\* block kept in order, and a message omitted when all its blocks were
\* removed.
C25_MarkedResultsRemoved ==
    fh_pc = "filtered" => fh_filtered = WithoutMarked(fh_history, 1)

----------------------------------------------------------------------------
(* Properties of the export *)

\* the sections an export of the history should read back as
RECURSIVE ExportedBodies(_, _)
ExportedBodies(h, i) ==
    IF i > Len(h) THEN <<>>
    ELSE <<[header |-> RoleHeader(h[i].role), body |-> h[i].content.text]>>
             \o ExportedBodies(h, i + 1)

\* the fenced subsections an export of the tracked files should read back as
RECURSIVE ExportedFiles(_, _)
ExportedFiles(files, i) ==
    IF i > Len(files) THEN <<>>
    ELSE <<[header |-> FileHeader(files[i].path), content |-> files[i].content]>>
             \o ExportedFiles(files, i + 1)

\* C26 (as stated): re-reading the export of two text messages and one
\* tracked file gives, in order, every message body under its role header
\* and the file's content inside its fenced subsection, verbatim.
C26_ExportRoundTrip ==
    sv_pc = "saved"
        => /\ sv_reread.bodies = ExportedBodies(sv_history, 1)
           /\ sv_reread.files = ExportedFiles(sv_file_contents, 1)

\* no line of a body is a section header and no line of the content a fence
PlainExport ==
    /\ \A i \in 1 .. Len(sv_history) :
           \A j \in 1 .. Len(sv_history[i].content.text) :
               sv_history[i].content.text[j] \notin SectionHeaders
    /\ \A i \in 1 .. Len(sv_file_contents) :
           \A j \in 1 .. Len(sv_file_contents[i].content) :
               sv_file_contents[i].content[j] # FENCE

\* on texts without such lines the export reads back verbatim
ExportRoundTripPlain == PlainExport => C26_ExportRoundTrip

----------------------------------------------------------------------------
(* Automode over a failing backend, and over several runs *)

\* C31: in automode a failure of the main dispatch comes back from
\* chat_with_claude as (error text, False) and is never raised, so the
\* controller clears error_count and advances iteration_count for it; when
\* every call fails that way, error_count stays 0, the consecutive-errors
\* report never appears, and a run that is not cancelled ends with
\* iteration_count = max_iterations, reported as max iterations reached.
C31_BackendFailureUsesIterations ==
    /\ pc = "returned" => ret = MainErrorReturn
    /\ error_count = 0
    /\ auto_streak = 0
    /\ ~Reported("ErrorAborted")
    /\ iteration_count = auto_ok
    /\ pc \in {"automode_while", "automode_exit"} /\ NotCancelled
           => iteration_count = auto_calls
    /\ pc = "automode_exit" /\ NotCancelled
           => /\ iteration_count = max_iterations
              /\ max_iterations > 0 => Reported("MaxIterationsReached")

\* a run of three iterations has ended after three calls, each of which
\* failed at the main dispatch
C31_Witness ==
    /\ pc = "automode_exit"
    /\ max_iterations = 3
    /\ auto_calls = 3
    /\ iteration_count = 3
    /\ auto_reported = <<"MaxIterationsReached">>
    /\ Len(history) = 3

\* C32: at the first loop test of every automode run iteration_count and
\* error_count are 0, whatever earlier runs of the session did, runs ended
\* by cancellation or by three consecutive errors included.
C32_CountersStartAtZero ==
    (pc = "automode_while" /\ auto_calls = 0)
        => /\ iteration_count = 0
           /\ error_count = 0

\* a run starts after one run was cancelled and another was ended by the
\* error budget
C32_Witness ==
    /\ pc = "automode_while"
    /\ auto_calls = 0
    /\ auto_earlier = {"ErrorAborted", "UserCancelled"}
    /\ iteration_count = 0
    /\ error_count = 0

----------------------------------------------------------------------------
(* The completion flag of a turn *)

----------------------------------------------------------------------------
(* The retry edit *)

\* C34 (as stated): when the retry conditions hold for an edit tool call
\* (here: a retry phrase in the follow-up commentary), the edit has been run
\* a second time for that call, its result is part of the assembled
\* response, and the loop is at the next tool call.
C34_RetryEditRunsOnce ==
    (EditFollowUpDone /\ tool_result.type = "list"
         /\ retry_phrase_present(tool_checker_response))
        => /\ retry_decision.raised = ""
           /\ retry_decision.retry
           /\ edit_calls = 2
           /\ "retry_result" \in assistant_response.pieces

\* C35: for one edit_and_apply_multiple tool call the edit tool is invoked
\* at most twice, the call of execute_tool and at most one retry, and no
\* other tool call invokes it; each tool call of the response gets one
\* follow-up and at most one decision, so a turn makes at most two edit
\* invocations per edit tool call.
C35_AtMostOneRetry ==
    /\ edit_calls <= 2
    /\ tool_name # "edit_and_apply_multiple" => edit_calls = 0
    /\ edit_calls = 2 => (retry_decision.raised = "" /\ retry_decision.retry)
    /\ pc \in {"tool_loop", "tool_checker"} => tool_index <= Len(tool_uses) + 1

\* the second edit tool call of a response has had its follow-up, with a
\* retry phrase in the commentary, and the edit was not run a third time
C35_Witness ==
    /\ EditFollowUpDone
    /\ tool_index = 3
    /\ retry_phrase_present(tool_checker_response)
    /\ edit_calls \in 1 .. 2

\* C36 (as stated): when the retry conditions hold and the commentary gives
\* no quoted path after retry / edit again / fix, decide_retry returns
\* retry = true with exactly the paths of the edit results.
C36_FallbackToResultPaths ==
    (rt_pc = "decided" /\ rt_results.type = "list"
         /\ (errors_present(rt_results) \/ retry_phrase_present(rt_response))
         /\ re_findall(rt_response, 1) = {})
        => rt_decision = Returned(TRUE, paths_of(rt_results))

----------------------------------------------------------------------------
(* The tool catalog *)

C38_DeclaredToolsHaveHandlers ==
    (td_pc = "done" /\ td_run.name \in DeclaredTools /\ td_run.input.valid)
        => td_outcome.result # UnknownToolEnvelope(td_run.name)

----------------------------------------------------------------------------
(* The file-content cache *)

\* C39 (as stated): every key of FileOperations.file_contents is the full
\* path of a file, with content of that file as its value; a tool call
\* that touches no file adds nothing.
C39_CacheHoldsFilesOnly ==
    \A key \in DOMAIN ss_file_contents :
        /\ key \in {GenerationsPath(path) : path \in SessionFiles}
        /\ ss_file_contents[key] \in SessionContents

----------------------------------------------------------------------------
(* The history *)

\* the step is a confirmed reset (run, lines 46-48; Conversation.reset)
ResetStep == pc = "run" /\ pc' = "exited" /\ history' = <<>>

\* C40: every step of the program other than a reset leaves
\* Conversation.history as it is or appends one message to it: the history
\* before the step is a prefix of the history after it.  The filtered list
\* and the repaired list are separate lists, whatever they drop or insert.
C40_HistoryAppendOnly ==
    [][\/ ResetStep
       \/ history' = history
       \/ /\ Len(history') = Len(history) + 1
          /\ SubSeq(history', 1, Len(history)) = history]_vars

\* the second call of an automode run has been sent: the repair has put a
\* placeholder between the two user messages of the list handed to the
\* model, and the history holds the two messages as they were added
C40_Witness ==
    /\ pc = "main_model"
    /\ history = <<UserMessage(USER_TEXT), UserMessage(USER_TEXT)>>
    /\ filtered_conversation_history = history
    /\ Len(messages) > Len(filtered_conversation_history) + 1
    /\ \E i \in 1 .. Len(messages) : messages[i] = PlaceholderMessage

====
